---- MODULE Spec2Model ----
(***************************************************************************)
(* A model of the sec-data-parser pipeline: lexer (tokens.rs, parse.rs),   *)
(* tree builder (document_tree.rs), schema binder (schema.rs) and the      *)
(* entry point parse_submission (lib.rs).                                  *)
(*                                                                         *)
(* Strings are sequences of symbols.  A symbol is one character ("<", "/", *)
(* ">", " ", "\n", "\r") or an atomic chunk of characters none of which is *)
(* one of those (a tag name such as "FILER", a value such as "19991231"). *)
(* Every outcome of a fallible operation is a record [kind, val] with kind *)
(* "Ok", "Err" (a ParseError value returned to the caller) or "Panic" (the *)
(* thread unwinds: panic!, assert!, unwrap, unimplemented!).               *)
(***************************************************************************)
EXTENDS Integers, Sequences, FiniteSets, TLC

VARIABLES
    input,   \* the argument the operation was called with (never written)
    pc,      \* position in the operation under way
    reader,  \* the text the BufRead has not yet handed out
    lexed,   \* tokenize_submission: the Vec<Token> built so far
    tokens,  \* parse_doc: the VecDeque<Token>
    stack,   \* parse_doc: one frame [tag, parts] per active ContainerTagOpen call
    tree,    \* outcome of the outermost parse_doc call
    bindIn,  \* from_parts: [entity, parts]
    result   \* outcome of the operation under way

vars == <<input, pc, reader, lexed, tokens, stack, tree, bindIn, result>>

----------------------------------------------------------------------------
(* Bounds of the checked instances. *)

MaxTokens == 4

MaxLexLines == 3

----------------------------------------------------------------------------
(* Outcomes. *)

Ok(v) == [kind |-> "Ok", val |-> v]

Err(e) == [kind |-> "Err", val |-> e]

Panic(m) == [kind |-> "Panic", val |-> m]

Pending == [kind |-> "Pending", val |-> <<>>]

NoInput == [entity |-> "", parts |-> <<>>]

SeqsUpTo(S, n) == UNION {[1..k -> S] : k \in 0..n}

Drop(q, n) == SubSeq(q, n + 1, Len(q))

RECURSIVE Concat(_)
Concat(ss) == IF ss = <<>> THEN <<>> ELSE Head(ss) \o Concat(Tail(ss))

----------------------------------------------------------------------------
(* Tokens as document_tree.rs matches them, and DocumentTree nodes. *)

ContainerTagOpen(tag) == [k |-> "ContainerTagOpen", tag |-> tag, text |-> <<>>]

ContainerTagClose(tag) == [k |-> "ContainerTagClose", tag |-> tag, text |-> <<>>]

ValueTagToken(tag) == [k |-> "ValueTag", tag |-> tag, text |-> <<>>]

RawText(c) == [k |-> "RawText", tag |-> "", text |-> c]

TextBlock(text) == [k |-> "TextBlock", tag |-> "", text |-> text]

ContainerNode(tag, parts) ==
    [k |-> "ContainerNode", tag |-> tag, value |-> <<>>, parts |-> parts]

ValueNode(tag, value) ==
    [k |-> "ValueNode", tag |-> tag, value |-> value, parts |-> <<>>]

TextNode(text) ==
    [k |-> "TextNode", tag |-> "", value |-> text, parts |-> <<>>]

Empty == [k |-> "Empty", tag |-> "", value |-> <<>>, parts |-> <<>>]

----------------------------------------------------------------------------
(* Strings. *)

Whitespace == {" ", "\n", "\r", "\t"}

RECURSIVE TrimStart(_)
TrimStart(s) ==
    IF s # <<>> /\ Head(s) \in Whitespace THEN TrimStart(Tail(s)) ELSE s

RECURSIVE TrimEnd(_)
TrimEnd(s) ==
    IF s # <<>> /\ s[Len(s)] \in Whitespace
    THEN TrimEnd(SubSeq(s, 1, Len(s) - 1))
    ELSE s

\* str::trim
Trim(s) == TrimEnd(TrimStart(s))

\* str::find(c): the first index of c in s, 0 when there is none.
Find(s, c) ==
    IF \E i \in 1..Len(s) : s[i] = c
    THEN CHOOSE i \in 1..Len(s) : s[i] = c /\ \A j \in 1..(i - 1) : s[j] # c
    ELSE 0

StartsWith(s, prefix) ==
    Len(s) >= Len(prefix) /\ SubSeq(s, 1, Len(prefix)) = prefix

----------------------------------------------------------------------------
(* The tag vocabularies (tag.rs): the text of a tag name and its variant.  *)

ContainerVocab ==
    ("SUBMISSION" :> "Submission") @@ ("FILER" :> "Filer")
        @@ ("COMPANY-DATA" :> "CompanyData") @@ ("DOCUMENT" :> "Document")
        @@ ("PAPER" :> "Paper")

ValueVocab ==
    ("ACCESSION-NUMBER" :> "AccessionNumber") @@ ("TYPE" :> "Type")
        @@ ("FILING-DATE" :> "FilingDate")
        @@ ("PUBLIC-DOCUMENT-COUNT" :> "PublicDocumentCount")
        @@ ("SEQUENCE" :> "Sequence") @@ ("SROS" :> "Sros")
        @@ ("PAPER" :> "Paper")

\* ContainerTag::parse
ContainerTagParse(name) ==
    IF Len(name) = 1 /\ name[1] \in DOMAIN ContainerVocab
    THEN Ok(ContainerVocab[name[1]])
    ELSE Err(<<"InvalidContainerTag">>)

\* ValueTag::parse
ValueTagParse(name) ==
    IF Len(name) = 1 /\ name[1] \in DOMAIN ValueVocab
    THEN Ok(ValueVocab[name[1]])
    ELSE Err(<<"InvalidValueTag">>)

----------------------------------------------------------------------------
(* parse_line (parse.rs). *)

OpenTag(tag) == [k |-> "OpenTag", tag |-> tag, value |-> <<>>]

CloseTag(tag) == [k |-> "CloseTag", tag |-> tag, value |-> <<>>]

TagWithValue(tag, value) == [k |-> "TagWithValue", tag |-> tag, value |-> value]

LinePanic(m) == [k |-> "Panic", tag |-> <<m>>, value |-> <<>>]

parse_line(line) ==
    LET i == Find(line, ">")
        tag == SubSeq(line, 1, i - 1)
        value == SubSeq(line, i + 1, Len(line))
    IN  IF i = 0
        THEN LinePanic("Line did not contain >.")
        ELSE IF StartsWith(tag, <<"<", "/">>)
        THEN IF value # <<>>
             THEN LinePanic("Unexpected value after closing tag")
             ELSE CloseTag(Drop(tag, 2))
        ELSE IF StartsWith(tag, <<"<">>)
        THEN IF value = <<>>
             THEN OpenTag(Drop(tag, 1))
             ELSE TagWithValue(Drop(tag, 1), value)
        ELSE LinePanic("Expected line to start with <")

----------------------------------------------------------------------------
(* The lexer (tokens.rs). *)

TagOpen(tag) == [k |-> "TagOpen", tag |-> tag, text |-> <<>>]

TagClose(tag) == [k |-> "TagClose", tag |-> tag, text |-> <<>>]

TagValue(tag, value) == [k |-> "TagValue", tag |-> tag, text |-> value]

TextData(body) == [k |-> "TextData", tag |-> "", text |-> body]

\* Ok(None)
NoToken == [k |-> "None", tag |-> "", text |-> <<>>]

\* BufRead::read_line hands out the text up to and including the next "\n",
\* or what is left when there is none.
LineLen(text) ==
    IF Find(text, "\n") = 0 THEN Len(text) ELSE Find(text, "\n")

\* read_line: None (no line, the whole text left) at the end of the input.
read_line(text) ==
    [none |-> text = <<>>,
     line |-> SubSeq(text, 1, LineLen(text)),
     rest |-> Drop(text, LineLen(text))]

\* The line that ends the capture of a TEXT body.
TextCloseLine == <<"<", "/", "TEXT", ">", "\n">>

IsTextClose(v) == v = TextCloseLine

\* A capture that strips each line as the lexer strips a tag line.
PushLine_Stripped(body, v) == body \o Trim(v)

\* tokens.rs:38, body.push_str(&v)
PushLine(body, v) == body \o v

\* tokens.rs:33-42, the loop over the lines that follow <TEXT>.
RECURSIVE CaptureText(_, _)
CaptureText(text, body) ==
    LET r == read_line(text)
    IN  IF r.none
        THEN [out |-> Panic(<<"not implemented">>), rest |-> text]
        ELSE IF IsTextClose(r.line)
        THEN [out |-> Ok(TextData(body)), rest |-> r.rest]
        ELSE CaptureText(r.rest, PushLine(body, r.line))

\* A lexer that tries the value-tag vocabulary first.
OpenTagToken_ValueFirst(tag) ==
    IF ValueTagParse(tag).kind = "Ok"
    THEN Ok(TagValue(ValueTagParse(tag).val, <<>>))
    ELSE IF ContainerTagParse(tag).kind = "Ok"
    THEN Ok(TagOpen(ContainerTagParse(tag).val))
    ELSE ValueTagParse(tag)

\* tokens.rs:44-50
OpenTagToken(tag) ==
    IF ContainerTagParse(tag).kind = "Ok"
    THEN Ok(TagOpen(ContainerTagParse(tag).val))
    ELSE IF ValueTagParse(tag).kind = "Ok"
    THEN Ok(TagValue(ValueTagParse(tag).val, <<>>))
    ELSE ValueTagParse(tag)

\* tokens.rs:51
CloseTagToken(tag) ==
    IF ContainerTagParse(tag).kind = "Ok"
    THEN Ok(TagClose(ContainerTagParse(tag).val))
    ELSE ContainerTagParse(tag)

\* tokens.rs:52-54
TagWithValueToken(tag, value) ==
    IF ValueTagParse(tag).kind = "Ok"
    THEN Ok(TagValue(ValueTagParse(tag).val, value))
    ELSE ValueTagParse(tag)

\* next_token: its outcome and the text left in the reader.
next_token(text) ==
    LET r == read_line(text)
        parsed == parse_line(Trim(r.line))
    IN  IF r.none
        THEN [out |-> Ok(NoToken), rest |-> text]
        ELSE IF parsed.k = "Panic"
        THEN [out |-> Panic(parsed.tag), rest |-> r.rest]
        ELSE IF parsed.k = "OpenTag" /\ parsed.tag = <<"TEXT">>
        THEN CaptureText(r.rest, <<>>)
        ELSE IF parsed.k = "OpenTag"
        THEN [out |-> OpenTagToken(parsed.tag), rest |-> r.rest]
        ELSE IF parsed.k = "CloseTag"
        THEN [out |-> CloseTagToken(parsed.tag), rest |-> r.rest]
        ELSE [out |-> TagWithValueToken(parsed.tag, parsed.value),
              rest |-> r.rest]

\* tokenize_submission, one step per iteration of its loop.
\* tokens.rs:64-65, a token is pushed.
TokenizePush ==
    /\ pc = "tokenize"
    /\ next_token(reader).out.kind = "Ok"
    /\ next_token(reader).out.val # NoToken
    /\ lexed' = Append(lexed, next_token(reader).out.val)
    /\ reader' = next_token(reader).rest
    /\ UNCHANGED <<input, pc, tokens, stack, tree, bindIn, result>>

\* tokens.rs:64 and 68, the reader is at its end: the loop ends.
TokenizeEnd ==
    /\ pc = "tokenize"
    /\ next_token(reader).out.kind = "Ok"
    /\ next_token(reader).out.val = NoToken
    /\ pc' = "tokenized"
    /\ UNCHANGED <<input, reader, lexed, tokens, stack, tree, bindIn, result>>

\* A tokenizer that stops at the line it cannot lex and hands out the tokens
\* it has.
TokenizePanic_YieldsPartial ==
    /\ pc = "tokenize"
    /\ next_token(reader).out.kind \in {"Err", "Panic"}
    /\ pc' = "tokenized"
    /\ UNCHANGED <<input, reader, lexed, tokens, stack, tree, bindIn, result>>

\* tokens.rs:64, unwrap of an Err, or a panic inside next_token.
TokenizePanic ==
    /\ pc = "tokenize"
    /\ next_token(reader).out.kind \in {"Err", "Panic"}
    /\ pc' = "done"
    /\ reader' = next_token(reader).rest
    /\ result' = Panic(next_token(reader).out.val)
    /\ UNCHANGED <<input, lexed, tokens, stack, tree, bindIn>>

TokenizeStep == TokenizePush \/ TokenizeEnd \/ TokenizePanic

----------------------------------------------------------------------------
(* parse_doc, one step per loop iteration or leaf call.  The recursion is  *)
(* the stack: a ContainerTagOpen call pushes a frame, its return pops it.  *)

Frame(tag) == [tag |-> tag, parts |-> <<>>]

\* A builder that takes a text block for one more continuation of a value.
RECURSIVE RawPrefixLen_AlsoTextBlock(_)
RawPrefixLen_AlsoTextBlock(q) ==
    IF q # <<>> /\ Head(q).k \in {"RawText", "TextBlock"}
    THEN 1 + RawPrefixLen_AlsoTextBlock(Tail(q))
    ELSE 0

\* A builder that takes one continuation token at most.
RawPrefixLen_OnlyFirst(q) ==
    IF q # <<>> /\ Head(q).k = "RawText" THEN 1 ELSE 0

\* The number of leading RawText tokens of q (the `while let Some(RawText)` loop).
RECURSIVE RawPrefixLen(_)
RawPrefixLen(q) ==
    IF q # <<>> /\ Head(q).k = "RawText" THEN 1 + RawPrefixLen(Tail(q)) ELSE 0

\* value.push_str(c) for each of the first n tokens of q.
RawPrefixText(q, n) == Concat([i \in 1..n |-> q[i].text])

\* A builder that reads the front of the queue where it should remove it.
Return_KeepsQueue(node, rest, frames) ==
    /\ tokens' = tokens
    /\ IF frames = <<>>
       THEN /\ stack' = <<>>
            /\ tree' = Ok(node)
            /\ pc' = "parsed"
       ELSE /\ stack' = [frames EXCEPT ![Len(frames)].parts = Append(@, node)]
            /\ tree' = tree
            /\ pc' = pc
    /\ UNCHANGED <<input, reader, lexed, bindIn, result>>

\* A builder whose frames put each new child in front of the earlier ones.
Return_PushesFront(node, rest, frames) ==
    /\ tokens' = rest
    /\ IF frames = <<>>
       THEN /\ stack' = <<>>
            /\ tree' = Ok(node)
            /\ pc' = "parsed"
       ELSE /\ stack' = [frames EXCEPT ![Len(frames)].parts = <<node>> \o @]
            /\ tree' = tree
            /\ pc' = pc
    /\ UNCHANGED <<input, reader, lexed, bindIn, result>>

\* A call returned Ok(node): it is the outermost call's result, or the
\* enclosing frame pushes it onto its parts.
Return(node, rest, frames) ==
    /\ tokens' = rest
    /\ IF frames = <<>>
       THEN /\ stack' = <<>>
            /\ tree' = Ok(node)
            /\ pc' = "parsed"
       ELSE /\ stack' = [frames EXCEPT ![Len(frames)].parts = Append(@, node)]
            /\ tree' = tree
            /\ pc' = pc
    /\ UNCHANGED <<input, reader, lexed, bindIn, result>>

\* A call returned Err(e): every enclosing frame returns it (`?`).
Fail(outcome, rest) ==
    /\ tokens' = rest
    /\ stack' = <<>>
    /\ tree' = outcome
    /\ pc' = "parsed"
    /\ UNCHANGED <<input, reader, lexed, bindIn, result>>

\* A call starts: the outermost one, or one made from a frame's loop.
Calling == pc = "parse_doc"

\* document_tree.rs:50-52, the queue is empty when the call starts.
ParseDocEmpty ==
    /\ Calling /\ stack = <<>> /\ tokens = <<>>
    /\ Return(Empty, tokens, stack)

\* document_tree.rs:20-21
ParseDocOpen ==
    /\ Calling /\ tokens # <<>> /\ Head(tokens).k = "ContainerTagOpen"
    /\ tokens' = Tail(tokens)
    /\ stack' = Append(stack, Frame(Head(tokens).tag))
    /\ UNCHANGED <<input, pc, reader, lexed, tree, bindIn, result>>

\* document_tree.rs:24-27, the front token closes the innermost open container.
ParseDocCloseMatching ==
    /\ Calling /\ stack # <<>> /\ tokens # <<>>
    /\ Head(tokens) = ContainerTagClose(stack[Len(stack)].tag)
    /\ Return(ContainerNode(stack[Len(stack)].tag, stack[Len(stack)].parts),
              Tail(tokens), SubSeq(stack, 1, Len(stack) - 1))

\* document_tree.rs:28-30, the front token closes some other container.
OnMismatchedClose(frame, c) == Fail(Panic(<<"Expected", c, "got", frame.tag>>), tokens)

ParseDocCloseMismatched ==
    /\ Calling /\ stack # <<>> /\ tokens # <<>>
    /\ Head(tokens).k = "ContainerTagClose"
    /\ Head(tokens) # ContainerTagClose(stack[Len(stack)].tag)
    /\ OnMismatchedClose(stack[Len(stack)], Head(tokens).tag)

\* A lenient builder: the end of the input closes the container.
OnEndOfInput_ClosesContainer(frame) ==
    Return(ContainerNode(frame.tag, frame.parts), tokens,
           SubSeq(stack, 1, Len(stack) - 1))

\* document_tree.rs:23 and 36, the queue ran out inside a container.
OnEndOfInput(frame) == Fail(Err(<<"UnexpectedEndOfInput", frame.tag>>), tokens)

ParseDocEndOfInput ==
    /\ Calling /\ stack # <<>> /\ tokens = <<>>
    /\ OnEndOfInput(stack[Len(stack)])

\* A builder that takes a stray close token for the end of the input.
OnCloseAtCall_AsEmpty(tag) == Return(Empty, Tail(tokens), stack)

\* document_tree.rs:38, a close token heads the queue when a call starts.
\* Inside a frame's loop lines 24-30 take every close token first, so this
\* is the outermost call.
OnCloseAtCall(tag) == Fail(Err(<<"UnexpectedCloseTag", tag>>), Tail(tokens))

ParseDocUnexpectedClose ==
    /\ Calling /\ stack = <<>> /\ tokens # <<>>
    /\ Head(tokens).k = "ContainerTagClose"
    /\ OnCloseAtCall(Head(tokens).tag)

\* document_tree.rs:39-46
ParseDocValue ==
    /\ Calling /\ tokens # <<>> /\ Head(tokens).k = "ValueTag"
    /\ LET n == RawPrefixLen(Tail(tokens))
       IN Return(ValueNode(Head(tokens).tag, RawPrefixText(Tail(tokens), n)),
                 Drop(Tail(tokens), n), stack)

\* document_tree.rs:47
ParseDocText ==
    /\ Calling /\ tokens # <<>> /\ Head(tokens).k = "TextBlock"
    /\ Return(TextNode(Head(tokens).text), Tail(tokens), stack)

\* document_tree.rs:48, a RawText token that follows no ValueTag.
ParseDocUnexpected ==
    /\ Calling /\ tokens # <<>> /\ Head(tokens).k = "RawText"
    /\ Fail(Panic(<<"Unexpected", Head(tokens).k>>), Tail(tokens))

ParseDocStep ==
    \/ ParseDocEmpty
    \/ ParseDocOpen
    \/ ParseDocCloseMatching
    \/ ParseDocCloseMismatched
    \/ ParseDocEndOfInput
    \/ ParseDocUnexpectedClose
    \/ ParseDocValue
    \/ ParseDocText
    \/ ParseDocUnexpected

----------------------------------------------------------------------------
(* The tree builder on its own: parse_doc called once on a token queue.    *)

TreeTags == {"Submission", "Filer"}

TreeTokens ==
    {ContainerTagOpen(t) : t \in TreeTags}
        \cup {ContainerTagClose(t) : t \in TreeTags}
        \cup {ValueTagToken("Type"), RawText(<<"a">>), RawText(<<"c">>),
              TextBlock(<<"b">>)}

InitTree ==
    /\ input \in SeqsUpTo(TreeTokens, MaxTokens)
    /\ pc = "parse_doc"
    /\ reader = <<>>
    /\ lexed = <<>>
    /\ tokens = input
    /\ stack = <<>>
    /\ tree = Pending
    /\ bindIn = NoInput
    /\ result = Pending

NextTree == ParseDocStep

SpecTree == InitTree /\ [][NextTree]_vars

\* parse_doc is a sequential function: the thread that runs it takes its next
\* step as long as it has one.
SpecTreeFair == SpecTree /\ WF_vars(NextTree)

----------------------------------------------------------------------------
(* Leaf conversions (types.rs, chrono, str::parse): what each makes of the *)
(* strings the instances use; any other string makes it panic.             *)

\* parse_date: NaiveDate::parse_from_str(value, "%Y%m%d").unwrap()
DateTable ==
    (<<"19991231">> :> <<1999, 12, 31>>) @@ (<<"20000101">> :> <<2000, 1, 1>>)

\* parse_date_time: NaiveDateTime::parse_from_str(value, "%Y%m%d:%H%M%S").unwrap()
DateTimeTable == (<<"19991231:235959">> :> <<1999, 12, 31, 23, 59, 59>>)

\* MonthDayPair::parse: st[..2] and st[2..] as u32, Month::from_u32
MonthDayTable == (<<"1231">> :> <<"December", 31>>)

\* str::parse::<usize>() and str::parse::<u32>()
NumberTable == (<<"0">> :> 0) @@ (<<"1">> :> 1) @@ (<<"2">> :> 2)

Lookup(table, value, what) ==
    IF value \in DOMAIN table THEN Ok(table[value]) ELSE Panic(<<what>>)

\* types.rs:21-27
parse_bool(v) ==
    IF v = <<"N">> THEN Ok(FALSE)
    ELSE IF v = <<"Y">> THEN Ok(TRUE)
    ELSE Panic(<<"h1">>)

----------------------------------------------------------------------------
(* The document body decoder (document_body.rs). *)

EndsWith(s, suffix) ==
    Len(s) >= Len(suffix)
        /\ SubSeq(s, Len(s) - Len(suffix) + 1, Len(s)) = suffix

StripPrefix(s, prefix) == Drop(s, Len(prefix))

StripSuffix(s, suffix) == SubSeq(s, 1, Len(s) - Len(suffix))

\* uuencode::uudecode on the payloads the instances use: a header line
\* "begin 644 <filename>", the encoded lines, "end".  None for anything else.
UuPayloads ==
    (<<"#0V%T", "\n", "end", "\n">> :> <<"C", "a", "t">>)
        @@ (<<"#0V%T", "\n", "end">> :> <<"C", "a", "t">>)

uudecode(st) ==
    IF /\ Len(st) >= 4
       /\ st[1] = "begin 644" /\ st[2] = " " /\ st[4] = "\n"
       /\ Drop(st, 4) \in DOMAIN UuPayloads
    THEN Ok([data |-> UuPayloads[Drop(st, 4)], filename |-> st[3]])
    ELSE Panic(<<"called Option::unwrap() on a None value">>)

\* A decoder that keeps as text what it cannot decode.
DocumentBodyFromString_TextFallback(st) ==
    IF StartsWith(st, <<"begin 644">>) /\ uudecode(st).kind = "Ok"
    THEN Ok([variant |-> "BinaryData",
             filename |-> <<uudecode(st).val.filename>>,
             data |-> uudecode(st).val.data])
    ELSE Ok([variant |-> "Text", filename |-> <<>>, data |-> st])

\* DocumentBody::from_string
DocumentBodyFromString(st) ==
    IF StartsWith(st, <<"begin 644">>)
    THEN IF uudecode(st).kind = "Ok"
         THEN Ok([variant |-> "BinaryData",
                  filename |-> <<uudecode(st).val.filename>>,
                  data |-> uudecode(st).val.data])
         ELSE uudecode(st)
    ELSE Ok([variant |-> "Text", filename |-> <<>>, data |-> st])

Marker(name) == <<"<", name, ">">>

EndMarker(name) == <<"<", "/", name, ">">>

\* A decoder that takes content whose wrapper is not closed for plain text.
Wrapped_PlaintextFallback(data_type, st, name) ==
    LET inner == StripPrefix(st, Marker(name))
        body == IF EndsWith(inner, EndMarker(name))
                THEN StripSuffix(inner, EndMarker(name))
                ELSE st
    IN  IF DocumentBodyFromString(body).kind = "Ok"
        THEN Ok([data_type |-> IF EndsWith(inner, EndMarker(name))
                               THEN data_type ELSE "Plaintext",
                 body |-> DocumentBodyFromString(body).val])
        ELSE DocumentBodyFromString(body)

\* One branch of TypedData::from_string: the content after the opening marker
\* must end with the closing marker (strip_suffix(..).unwrap()).
Wrapped(data_type, st, name) ==
    LET inner == StripPrefix(st, Marker(name))
    IN  IF ~EndsWith(inner, EndMarker(name))
        THEN Panic(<<"called Option::unwrap() on a None value">>)
        ELSE IF DocumentBodyFromString(StripSuffix(inner, EndMarker(name))).kind = "Ok"
        THEN Ok([data_type |-> data_type,
                 body |-> DocumentBodyFromString(
                              StripSuffix(inner, EndMarker(name))).val])
        ELSE DocumentBodyFromString(StripSuffix(inner, EndMarker(name)))

\* TypedData::from_string
TypedDataFromString(text) ==
    LET st == Trim(text)
    IN  IF StartsWith(st, Marker("XML")) THEN Wrapped("Xml", st, "XML")
        ELSE IF StartsWith(st, Marker("PDF")) THEN Wrapped("Pdf", st, "PDF")
        ELSE IF StartsWith(st, Marker("XBRL")) THEN Wrapped("Pdf", st, "XBRL")
        ELSE IF DocumentBodyFromString(st).kind = "Ok"
        THEN Ok([data_type |-> "Plaintext", body |-> DocumentBodyFromString(st).val])
        ELSE DocumentBodyFromString(st)

----------------------------------------------------------------------------
(* The schema binder (schema.rs).  Every from_parts has the same form: its *)
(* locals, a loop over the parts with a match on each, and the record      *)
(* built from the locals.  An arm of the match is a record [node, tag,     *)
(* field, mode, conv]: the kind of node and tag it matches, the local it   *)
(* assigns, how it assigns it, and what it assigns:                        *)
(*   mode "once"       assert!(x.is_none()); x = Some(..)                  *)
(*        "overwrite"  x = Some(..)                                        *)
(*        "push"       x.push(..)                                          *)
(*        "flag"       x = true                                            *)
(*        "count"      assert_eq!(0, x); x = ..                            *)
(*   conv "clone", a leaf conversion, or the entity whose from_parts       *)
(*        decodes the parts of a container node.                           *)
(* An Option or a Vec local is a sequence (None is <<>>).                  *)

\* FilingValues::from_parts, schema.rs:19-56: the arms of its match.
FilingValuesArms ==
    {[node |-> "ValueNode", tag |-> "FormType", field |-> "form_type",
      mode |-> "once", conv |-> "clone"],
     [node |-> "ValueNode", tag |-> "Act", field |-> "act",
      mode |-> "once", conv |-> "clone"],
     [node |-> "ValueNode", tag |-> "FileNumber", field |-> "file_number",
      mode |-> "once", conv |-> "clone"],
     [node |-> "ValueNode", tag |-> "FilmNumber", field |-> "film_number",
      mode |-> "once", conv |-> "clone"]}

\* The locals FilingValues::from_parts unwraps when it builds the record.
FilingValuesUnwrapped == {"form_type"}

\* The fields struct FilingValues declares without Option, Vec or bool.
FilingValuesRequired == {"form_type"}

\* CompanyData::from_parts, schema.rs:71-126: the arms of its match.
CompanyDataArms ==
    {[node |-> "ValueNode", tag |-> "ConformedName", field |-> "conformed_name",
      mode |-> "once", conv |-> "clone"],
     [node |-> "ValueNode", tag |-> "Cik", field |-> "cik",
      mode |-> "once", conv |-> "clone"],
     [node |-> "ValueNode", tag |-> "IrsNumber", field |-> "irs_number",
      mode |-> "once", conv |-> "clone"],
     [node |-> "ValueNode", tag |-> "StateOfInforporation", field |-> "state_of_incorporation",
      mode |-> "once", conv |-> "clone"],
     [node |-> "ValueNode", tag |-> "FiscalYearEnd", field |-> "fiscal_year_end",
      mode |-> "once", conv |-> "MonthDayPair"],
     [node |-> "ValueNode", tag |-> "AssignedSic", field |-> "assigned_sic",
      mode |-> "once", conv |-> "clone"],
     [node |-> "ValueNode", tag |-> "Relationship", field |-> "relationship",
      mode |-> "once", conv |-> "clone"]}

\* The locals CompanyData::from_parts unwraps when it builds the record.
CompanyDataUnwrapped == {"conformed_name", "cik"}

\* The fields struct CompanyData declares without Option, Vec or bool.
CompanyDataRequired == {"conformed_name", "cik"}

\* Address::from_parts, schema.rs:140-189: the arms of its match.
AddressArms ==
    {[node |-> "ValueNode", tag |-> "Street1", field |-> "street1",
      mode |-> "once", conv |-> "clone"],
     [node |-> "ValueNode", tag |-> "Street2", field |-> "street2",
      mode |-> "once", conv |-> "clone"],
     [node |-> "ValueNode", tag |-> "City", field |-> "city",
      mode |-> "once", conv |-> "clone"],
     [node |-> "ValueNode", tag |-> "State", field |-> "state",
      mode |-> "once", conv |-> "clone"],
     [node |-> "ValueNode", tag |-> "Zip", field |-> "zip",
      mode |-> "once", conv |-> "clone"],
     [node |-> "ValueNode", tag |-> "Phone", field |-> "phone",
      mode |-> "once", conv |-> "clone"]}

\* The locals Address::from_parts unwraps when it builds the record.
AddressUnwrapped == {}

\* The fields struct Address declares without Option, Vec or bool.
AddressRequired == {}

\* FormerCompany::from_parts, schema.rs:199-224: the arms of its match.
FormerCompanyArms ==
    {[node |-> "ValueNode", tag |-> "FormerConformedName", field |-> "former_conformed_name",
      mode |-> "once", conv |-> "clone"],
     [node |-> "ValueNode", tag |-> "DateChanged", field |-> "date_changed",
      mode |-> "once", conv |-> "parse_date"]}

\* The locals FormerCompany::from_parts unwraps when it builds the record.
FormerCompanyUnwrapped == {"former_conformed_name", "date_changed"}

\* The fields struct FormerCompany declares without Option, Vec or bool.
FormerCompanyRequired == {"former_conformed_name", "date_changed"}

\* Company::from_parts, schema.rs:239-293: the arms of its match.
CompanyArms ==
    {[node |-> "ContainerNode", tag |-> "CompanyData", field |-> "company_data",
      mode |-> "once", conv |-> "CompanyData"],
     [node |-> "ContainerNode", tag |-> "FilingValues", field |-> "filing_values",
      mode |-> "push", conv |-> "FilingValues"],
     [node |-> "ContainerNode", tag |-> "BusinessAddress", field |-> "business_address",
      mode |-> "once", conv |-> "Address"],
     [node |-> "ContainerNode", tag |-> "MailAddress", field |-> "mail_address",
      mode |-> "once", conv |-> "Address"],
     [node |-> "ContainerNode", tag |-> "FormerCompany", field |-> "former_company",
      mode |-> "push", conv |-> "FormerCompany"],
     [node |-> "ContainerNode", tag |-> "OwnerData", field |-> "owner_data",
      mode |-> "once", conv |-> "CompanyData"],
     [node |-> "ContainerNode", tag |-> "FormerName", field |-> "former_name",
      mode |-> "push", conv |-> "FormerCompany"]}

\* The locals Company::from_parts unwraps when it builds the record.
CompanyUnwrapped == {}

\* The fields struct Company declares without Option, Vec or bool.
CompanyRequired == {}

\* Document::from_parts, schema.rs:307-352: the arms of its match.
DocumentArms ==
    {[node |-> "ValueNode", tag |-> "Type", field |-> "doc_type",
      mode |-> "once", conv |-> "clone"],
     [node |-> "ValueNode", tag |-> "Sequence", field |-> "sequence",
      mode |-> "once", conv |-> "parse_u32"],
     [node |-> "ValueNode", tag |-> "Filename", field |-> "filename",
      mode |-> "once", conv |-> "clone"],
     [node |-> "ValueNode", tag |-> "Description", field |-> "description",
      mode |-> "once", conv |-> "clone"],
     [node |-> "ValueNode", tag |-> "Flawed", field |-> "flawed",
      mode |-> "flag", conv |-> "none"],
     [node |-> "TextNode", tag |-> "", field |-> "body",
      mode |-> "overwrite", conv |-> "TypedData"]}

\* The locals Document::from_parts unwraps when it builds the record.
DocumentUnwrapped == {"doc_type", "sequence"}

\* The fields struct Document declares without Option, Vec or bool.
DocumentRequired == {"doc_type", "sequence"}

\* ClassContract::from_parts, schema.rs:363-394: the arms of its match.
ClassContractArms ==
    {[node |-> "ValueNode", tag |-> "ClassContractId", field |-> "class_contract_id",
      mode |-> "once", conv |-> "clone"],
     [node |-> "ValueNode", tag |-> "ClassContractName", field |-> "class_contract_name",
      mode |-> "once", conv |-> "clone"],
     [node |-> "ValueNode", tag |-> "ClassContractTickerSymbol", field |-> "class_contract_ticker_symbol",
      mode |-> "once", conv |-> "clone"]}

\* The locals ClassContract::from_parts unwraps when it builds the record.
ClassContractUnwrapped == {"class_contract_id", "class_contract_name"}

\* The fields struct ClassContract declares without Option, Vec or bool.
ClassContractRequired == {"class_contract_id", "class_contract_name"}

\* Series::from_parts, schema.rs:406-447: the arms of its match.
SeriesArms ==
    {[node |-> "ValueNode", tag |-> "OwnerCik", field |-> "owner_cik",
      mode |-> "once", conv |-> "clone"],
     [node |-> "ValueNode", tag |-> "SeriesId", field |-> "series_id",
      mode |-> "once", conv |-> "clone"],
     [node |-> "ValueNode", tag |-> "SeriesName", field |-> "series_name",
      mode |-> "once", conv |-> "clone"],
     [node |-> "ContainerNode", tag |-> "ClassContract", field |-> "class_contracts",
      mode |-> "push", conv |-> "ClassContract"]}

\* The locals Series::from_parts unwraps when it builds the record.
SeriesUnwrapped == {"series_id", "series_name"}

\* The fields struct Series declares without Option, Vec or bool.
SeriesRequired == {"series_id", "series_name"}

\* AcquiringData::from_parts, schema.rs:457-479: the arms of its match.
AcquiringDataArms ==
    {[node |-> "ValueNode", tag |-> "Cik", field |-> "cik",
      mode |-> "once", conv |-> "clone"],
     [node |-> "ContainerNode", tag |-> "Series", field |-> "series",
      mode |-> "once", conv |-> "Series"]}

\* The locals AcquiringData::from_parts unwraps when it builds the record.
AcquiringDataUnwrapped == {"series", "cik"}

\* The fields struct AcquiringData declares without Option, Vec or bool.
AcquiringDataRequired == {"cik", "series"}

\* TargetData::from_parts, schema.rs:489-510: the arms of its match.
TargetDataArms ==
    {[node |-> "ValueNode", tag |-> "Cik", field |-> "cik",
      mode |-> "once", conv |-> "clone"],
     [node |-> "ContainerNode", tag |-> "Series", field |-> "series",
      mode |-> "push", conv |-> "Series"]}

\* The locals TargetData::from_parts unwraps when it builds the record.
TargetDataUnwrapped == {"cik"}

\* The fields struct TargetData declares without Option, Vec or bool.
TargetDataRequired == {"cik"}

\* Merger::from_parts, schema.rs:520-543: the arms of its match.
MergerArms ==
    {[node |-> "ContainerNode", tag |-> "AcquiringData", field |-> "acquiring_data",
      mode |-> "once", conv |-> "AcquiringData"],
     [node |-> "ContainerNode", tag |-> "TargetData", field |-> "target_data",
      mode |-> "push", conv |-> "TargetData"]}

\* The locals Merger::from_parts unwraps when it builds the record.
MergerUnwrapped == {"acquiring_data"}

\* The fields struct Merger declares without Option, Vec or bool.
MergerRequired == {"acquiring_data"}

\* NewSeriesAndClassesContracts::from_parts, schema.rs:554-583: the arms of its match.
NewSeriesAndClassesContractsArms ==
    {[node |-> "ValueNode", tag |-> "OwnerCik", field |-> "owner_cik",
      mode |-> "once", conv |-> "clone"],
     [node |-> "ContainerNode", tag |-> "NewSeries", field |-> "new_series",
      mode |-> "push", conv |-> "Series"],
     [node |-> "ContainerNode", tag |-> "NewClassesContracts", field |-> "new_classes_contract",
      mode |-> "push", conv |-> "Series"]}

\* The locals NewSeriesAndClassesContracts::from_parts unwraps when it builds the record.
NewSeriesAndClassesContractsUnwrapped == {}

\* The fields struct NewSeriesAndClassesContracts declares without Option, Vec or bool.
NewSeriesAndClassesContractsRequired == {}

\* SeriesAndClassesContracts::from_parts, schema.rs:592-609: the arms of its match.
SeriesAndClassesContractsArms ==
    {[node |-> "ContainerNode", tag |-> "Series", field |-> "series",
      mode |-> "push", conv |-> "Series"]}

\* The locals SeriesAndClassesContracts::from_parts unwraps when it builds the record.
SeriesAndClassesContractsUnwrapped == {}

\* The fields struct SeriesAndClassesContracts declares without Option, Vec or bool.
SeriesAndClassesContractsRequired == {}

\* MergerSeriesAndClassContracts::from_parts, schema.rs:618-635: the arms of its match.
MergerSeriesAndClassContractsArms ==
    {[node |-> "ContainerNode", tag |-> "Merger", field |-> "mergers",
      mode |-> "push", conv |-> "Merger"]}

\* The locals MergerSeriesAndClassContracts::from_parts unwraps when it builds the record.
MergerSeriesAndClassContractsUnwrapped == {}

\* The fields struct MergerSeriesAndClassContracts declares without Option, Vec or bool.
MergerSeriesAndClassContractsRequired == {}

\* SeriesAndClassesContractsData::from_parts, schema.rs:646-680: the arms of its match.
SeriesAndClassesContractsDataArms ==
    {[node |-> "ContainerNode", tag |-> "ExistingSeriesAndClassesContracts", field |-> "existing_series_and_classes_contracts",
      mode |-> "once", conv |-> "SeriesAndClassesContracts"],
     [node |-> "ContainerNode", tag |-> "MergerSeriesAndClassesContracts", field |-> "merger_series_and_classes_contracts",
      mode |-> "once", conv |-> "MergerSeriesAndClassContracts"],
     [node |-> "ContainerNode", tag |-> "NewSeriesAndClassesContracts", field |-> "new_series_and_classes_contracts",
      mode |-> "once", conv |-> "NewSeriesAndClassesContracts"]}

\* The locals SeriesAndClassesContractsData::from_parts unwraps when it builds the record.
SeriesAndClassesContractsDataUnwrapped == {}

\* The fields struct SeriesAndClassesContractsData declares without Option, Vec or bool.
SeriesAndClassesContractsDataRequired == {}

\* Submission::from_parts, schema.rs:739-1052: the arms of its match.
SubmissionArms ==
    {[node |-> "ValueNode", tag |-> "AccessionNumber", field |-> "accession_number",
      mode |-> "once", conv |-> "clone"],
     [node |-> "ValueNode", tag |-> "Type", field |-> "filing_type",
      mode |-> "once", conv |-> "clone"],
     [node |-> "ValueNode", tag |-> "PublicDocumentCount", field |-> "public_document_count",
      mode |-> "count", conv |-> "parse_usize"],
     [node |-> "ValueNode", tag |-> "Items", field |-> "items",
      mode |-> "push", conv |-> "clone"],
     [node |-> "ValueNode", tag |-> "FilingDate", field |-> "filing_date",
      mode |-> "once", conv |-> "parse_date"],
     [node |-> "ValueNode", tag |-> "DateOfFilingDateChange", field |-> "date_of_filing_date_change",
      mode |-> "once", conv |-> "parse_date"],
     [node |-> "ValueNode", tag |-> "EffectivenessDate", field |-> "effectiveness_date",
      mode |-> "once", conv |-> "parse_date"],
     [node |-> "ValueNode", tag |-> "Period", field |-> "period",
      mode |-> "once", conv |-> "parse_date"],
     [node |-> "ValueNode", tag |-> "GroupMembers", field |-> "group_members",
      mode |-> "push", conv |-> "clone"],
     [node |-> "ValueNode", tag |-> "Reference462B", field |-> "reference_462b",
      mode |-> "once", conv |-> "clone"],
     [node |-> "ValueNode", tag |-> "IsFilerANewRegistrant", field |-> "is_filer_a_new_registrant",
      mode |-> "once", conv |-> "parse_bool"],
     [node |-> "ValueNode", tag |-> "IsFilerAWellKnownSeasonedIssuer", field |-> "is_filer_a_well_known_seasoned_issuer",
      mode |-> "once", conv |-> "parse_bool"],
     [node |-> "ValueNode", tag |-> "FiledPursuantToGeneralInstructionA2", field |-> "filed_pursuant_to_general_instruction_a2",
      mode |-> "once", conv |-> "parse_bool"],
     [node |-> "ValueNode", tag |-> "IsFund24F2Eligible", field |-> "is_fund_24f2_eligible",
      mode |-> "once", conv |-> "parse_bool"],
     [node |-> "ValueNode", tag |-> "ActionDate", field |-> "action_date",
      mode |-> "once", conv |-> "parse_date"],
     [node |-> "ValueNode", tag |-> "ReceivedDate", field |-> "received_date",
      mode |-> "once", conv |-> "parse_date"],
     [node |-> "ValueNode", tag |-> "MaIIndividual", field |-> "ma_i_individual",
      mode |-> "once", conv |-> "clone"],
     [node |-> "ValueNode", tag |-> "AbsRule", field |-> "abs_rule",
      mode |-> "once", conv |-> "clone"],
     [node |-> "ValueNode", tag |-> "PeriodStart", field |-> "period_start",
      mode |-> "once", conv |-> "parse_date"],
     [node |-> "ValueNode", tag |-> "NoQuarterlyActivity", field |-> "no_quarterly_activity",
      mode |-> "once", conv |-> "parse_bool"],
     [node |-> "ValueNode", tag |-> "NoAnnualActivity", field |-> "no_annual_activity",
      mode |-> "once", conv |-> "parse_bool"],
     [node |-> "ValueNode", tag |-> "AbsAssetClass", field |-> "abs_asset_class",
      mode |-> "once", conv |-> "clone"],
     [node |-> "ValueNode", tag |-> "DepositorCik", field |-> "depositor_cik",
      mode |-> "once", conv |-> "clone"],
     [node |-> "ValueNode", tag |-> "SponsorCik", field |-> "sponsor_cik",
      mode |-> "once", conv |-> "clone"],
     [node |-> "ValueNode", tag |-> "Category", field |-> "category",
      mode |-> "once", conv |-> "clone"],
     [node |-> "ValueNode", tag |-> "RegisteredEntity", field |-> "registered_entity",
      mode |-> "once", conv |-> "parse_bool"],
     [node |-> "ValueNode", tag |-> "References429", field |-> "references_429",
      mode |-> "once", conv |-> "clone"],
     [node |-> "ValueNode", tag |-> "SecuritizerCik", field |-> "securitizer_cik",
      mode |-> "once", conv |-> "clone"],
     [node |-> "ValueNode", tag |-> "IssuingEntityCik", field |-> "issuing_entity_cik",
      mode |-> "once", conv |-> "clone"],
     [node |-> "ValueNode", tag |-> "IssuingEntityName", field |-> "issuing_entity_name",
      mode |-> "once", conv |-> "clone"],
     [node |-> "ValueNode", tag |-> "Paper", field |-> "paper",
      mode |-> "flag", conv |-> "none"],
     [node |-> "ValueNode", tag |-> "ConfirmingCopy", field |-> "confirming_copy",
      mode |-> "flag", conv |-> "none"],
     [node |-> "ValueNode", tag |-> "SecuritizerFileNumber", field |-> "securitizer_file_number",
      mode |-> "overwrite", conv |-> "clone"],
     [node |-> "ValueNode", tag |-> "DepositorFileNumber", field |-> "depositor_file_number",
      mode |-> "overwrite", conv |-> "clone"],
     [node |-> "ValueNode", tag |-> "Timestamp", field |-> "timestamp",
      mode |-> "overwrite", conv |-> "parse_date_time"],
     [node |-> "ValueNode", tag |-> "PrivateToPublic", field |-> "private_to_public",
      mode |-> "flag", conv |-> "none"],
     [node |-> "ValueNode", tag |-> "PublicReferenceAcc", field |-> "public_reference_acc",
      mode |-> "overwrite", conv |-> "clone"],
     [node |-> "ValueNode", tag |-> "PublicRelDate", field |-> "public_rel_date",
      mode |-> "overwrite", conv |-> "parse_date"],
     [node |-> "ValueNode", tag |-> "Deletion", field |-> "deletion",
      mode |-> "flag", conv |-> "none"],
     [node |-> "ValueNode", tag |-> "Correction", field |-> "correction",
      mode |-> "flag", conv |-> "none"],
     [node |-> "ValueNode", tag |-> "Sros", field |-> "sros",
      mode |-> "overwrite", conv |-> "clone"],
     [node |-> "ValueNode", tag |-> "PreviousAccessionNumber", field |-> "previous_accession_number",
      mode |-> "overwrite", conv |-> "clone"],
     [node |-> "ContainerNode", tag |-> "Filer", field |-> "filers",
      mode |-> "push", conv |-> "Company"],
     [node |-> "ContainerNode", tag |-> "Document", field |-> "documents",
      mode |-> "push", conv |-> "Document"],
     [node |-> "ContainerNode", tag |-> "SeriesAndClassesContractsData", field |-> "series_and_classes_contracts_data",
      mode |-> "once", conv |-> "SeriesAndClassesContractsData"],
     [node |-> "ContainerNode", tag |-> "ReportingOwner", field |-> "reporting_owners",
      mode |-> "push", conv |-> "Company"],
     [node |-> "ContainerNode", tag |-> "Issuer", field |-> "issuer",
      mode |-> "once", conv |-> "Company"],
     [node |-> "ContainerNode", tag |-> "SubjectCompany", field |-> "subject_company",
      mode |-> "push", conv |-> "Company"],
     [node |-> "ContainerNode", tag |-> "FiledBy", field |-> "filed_by",
      mode |-> "overwrite", conv |-> "Company"],
     [node |-> "ContainerNode", tag |-> "Depositor", field |-> "depositor",
      mode |-> "once", conv |-> "Company"],
     [node |-> "ContainerNode", tag |-> "Securitizer", field |-> "securitizer",
      mode |-> "once", conv |-> "Company"],
     [node |-> "ContainerNode", tag |-> "FiledFor", field |-> "filed_for",
      mode |-> "push", conv |-> "Company"]}

\* The locals Submission::from_parts unwraps when it builds the record.
SubmissionUnwrapped == {"accession_number", "filing_type", "filing_date"}

\* The fields struct Submission declares without Option, Vec or bool.
SubmissionRequired == {"accession_number", "filing_type", "filing_date"}

Entities ==
    {"FilingValues",
     "CompanyData",
     "Address",
     "FormerCompany",
     "Company",
     "Document",
     "ClassContract",
     "Series",
     "AcquiringData",
     "TargetData",
     "Merger",
     "NewSeriesAndClassesContracts",
     "SeriesAndClassesContracts",
     "MergerSeriesAndClassContracts",
     "SeriesAndClassesContractsData",
     "Submission"}

Arms(e) ==
    CASE e = "FilingValues" -> FilingValuesArms
      [] e = "CompanyData" -> CompanyDataArms
      [] e = "Address" -> AddressArms
      [] e = "FormerCompany" -> FormerCompanyArms
      [] e = "Company" -> CompanyArms
      [] e = "Document" -> DocumentArms
      [] e = "ClassContract" -> ClassContractArms
      [] e = "Series" -> SeriesArms
      [] e = "AcquiringData" -> AcquiringDataArms
      [] e = "TargetData" -> TargetDataArms
      [] e = "Merger" -> MergerArms
      [] e = "NewSeriesAndClassesContracts" -> NewSeriesAndClassesContractsArms
      [] e = "SeriesAndClassesContracts" -> SeriesAndClassesContractsArms
      [] e = "MergerSeriesAndClassContracts" -> MergerSeriesAndClassContractsArms
      [] e = "SeriesAndClassesContractsData" -> SeriesAndClassesContractsDataArms
      [] e = "Submission" -> SubmissionArms

Unwrapped(e) ==
    CASE e = "FilingValues" -> FilingValuesUnwrapped
      [] e = "CompanyData" -> CompanyDataUnwrapped
      [] e = "Address" -> AddressUnwrapped
      [] e = "FormerCompany" -> FormerCompanyUnwrapped
      [] e = "Company" -> CompanyUnwrapped
      [] e = "Document" -> DocumentUnwrapped
      [] e = "ClassContract" -> ClassContractUnwrapped
      [] e = "Series" -> SeriesUnwrapped
      [] e = "AcquiringData" -> AcquiringDataUnwrapped
      [] e = "TargetData" -> TargetDataUnwrapped
      [] e = "Merger" -> MergerUnwrapped
      [] e = "NewSeriesAndClassesContracts" -> NewSeriesAndClassesContractsUnwrapped
      [] e = "SeriesAndClassesContracts" -> SeriesAndClassesContractsUnwrapped
      [] e = "MergerSeriesAndClassContracts" -> MergerSeriesAndClassContractsUnwrapped
      [] e = "SeriesAndClassesContractsData" -> SeriesAndClassesContractsDataUnwrapped
      [] e = "Submission" -> SubmissionUnwrapped

Required(e) ==
    CASE e = "FilingValues" -> FilingValuesRequired
      [] e = "CompanyData" -> CompanyDataRequired
      [] e = "Address" -> AddressRequired
      [] e = "FormerCompany" -> FormerCompanyRequired
      [] e = "Company" -> CompanyRequired
      [] e = "Document" -> DocumentRequired
      [] e = "ClassContract" -> ClassContractRequired
      [] e = "Series" -> SeriesRequired
      [] e = "AcquiringData" -> AcquiringDataRequired
      [] e = "TargetData" -> TargetDataRequired
      [] e = "Merger" -> MergerRequired
      [] e = "NewSeriesAndClassesContracts" -> NewSeriesAndClassesContractsRequired
      [] e = "SeriesAndClassesContracts" -> SeriesAndClassesContractsRequired
      [] e = "MergerSeriesAndClassContracts" -> MergerSeriesAndClassContractsRequired
      [] e = "SeriesAndClassesContractsData" -> SeriesAndClassesContractsDataRequired
      [] e = "Submission" -> SubmissionRequired

\* The fields of struct e: every decoder moves each of its locals into the
\* record but the document count, which Submission keeps to itself.
Fields(e) == {a.field : a \in {b \in Arms(e) : b.mode # "count"}}

\* The value a local holds before the loop: None, Vec::new(), false or 0.
InitialValue(mode) ==
    CASE mode = "flag" -> FALSE
      [] mode = "count" -> 0
      [] OTHER -> <<>>

Locals(e) == {a.field : a \in Arms(e)}

InitialLocals(e) ==
    [f \in Locals(e) |->
        InitialValue((CHOOSE a \in Arms(e) : a.field = f).mode)]

MatchingArms(e, part) == {a \in Arms(e) : a.node = part.k /\ a.tag = part.tag}

\* A decoder that skips a child it has no arm for.
Unrecognized_Skipped(locals, part) == Ok(locals)

\* The `_ => panic!("Unexpected: ..")` and `_ => unimplemented!(..)` arms.
Unrecognized(locals, part) == Panic(<<"Unexpected", part.k, part.tag>>)

\* A decoder that fills a missing field with the default of its type.
Finalize_DefaultsMissing(e, locals) ==
    Ok([f \in Fields(e) |->
          IF f \in Unwrapped(e)
          THEN IF locals[f] = <<>> THEN <<>> ELSE locals[f][1]
          ELSE locals[f]])

\* The `Ok(Entity { .. })` expression that ends from_parts.
Finalize(e, locals) ==
    IF \E f \in Unwrapped(e) : locals[f] = <<>>
    THEN Panic(<<"called Option::unwrap() on a None value">>)
    ELSE Ok([f \in Fields(e) |->
               IF f \in Unwrapped(e) THEN locals[f][1] ELSE locals[f]])

\* A decoder that keeps one element of each value in a repeated field.
Pushed_Deduplicated(was, v) ==
    IF \E i \in 1..Len(was) : was[i] = v THEN was ELSE Append(was, v)

\* x.push(..) of a repeated field.
Pushed(was, v) == Append(was, v)

RECURSIVE FromParts(_, _), Converted(_, _), Assigned(_, _, _), Scanned(_, _, _)

\* What an arm assigns: the node's value converted, or its parts decoded.
Converted(conv, part) ==
    CASE conv = "clone" -> Ok(part.value)
      [] conv = "none" -> Ok(TRUE)
      [] conv = "parse_date" -> Lookup(DateTable, part.value, "ParseError")
      [] conv = "parse_date_time" -> Lookup(DateTimeTable, part.value, "ParseError")
      [] conv = "parse_bool" -> parse_bool(part.value)
      [] conv = "MonthDayPair" -> Lookup(MonthDayTable, part.value, "ParseIntError")
      [] conv \in {"parse_usize", "parse_u32"} ->
             Lookup(NumberTable, part.value, "ParseIntError")
      [] conv = "TypedData" -> TypedDataFromString(part.value)
      [] OTHER -> FromParts(conv, part.parts)

\* A decoder that takes every document count it meets.
Assigned_CountUnchecked(e, locals, part) ==
    IF MatchingArms(e, part) = {}
    THEN Unrecognized(locals, part)
    ELSE LET a == CHOOSE a \in MatchingArms(e, part) : TRUE
             was == locals[a.field]
             v == Converted(a.conv, part)
         IN  IF a.mode = "once" /\ was # <<>>
             THEN Panic(<<"assertion failed", a.field>>)
             ELSE IF v.kind # "Ok"
             THEN v
             ELSE Ok([locals EXCEPT ![a.field] =
                        CASE a.mode = "push" -> Pushed(was, v.val)
                          [] a.mode = "flag" -> TRUE
                          [] a.mode = "count" -> v.val
                          [] OTHER -> <<v.val>>])

\* A decoder whose plainly assigned fields keep the first value they get.
Assigned_KeepsFirst(e, locals, part) ==
    IF MatchingArms(e, part) = {}
    THEN Unrecognized(locals, part)
    ELSE LET a == CHOOSE a \in MatchingArms(e, part) : TRUE
             was == locals[a.field]
             v == Converted(a.conv, part)
         IN  IF a.mode = "once" /\ was # <<>>
             THEN Panic(<<"assertion failed", a.field>>)
             ELSE IF a.mode = "count" /\ was # 0
             THEN Panic(<<"assertion failed", a.field>>)
             ELSE IF v.kind # "Ok"
             THEN v
             ELSE Ok([locals EXCEPT ![a.field] =
                        CASE a.mode = "push" -> Pushed(was, v.val)
                          [] a.mode = "flag" -> TRUE
                          [] a.mode = "count" -> v.val
                          [] OTHER -> IF was # <<>> THEN was ELSE <<v.val>>])

\* One iteration of the loop: the match on a part.
Assigned(e, locals, part) ==
    IF MatchingArms(e, part) = {}
    THEN Unrecognized(locals, part)
    ELSE LET a == CHOOSE a \in MatchingArms(e, part) : TRUE
             was == locals[a.field]
             v == Converted(a.conv, part)
         IN  IF a.mode = "once" /\ was # <<>>
             THEN Panic(<<"assertion failed", a.field>>)
             ELSE IF a.mode = "count" /\ was # 0
             THEN Panic(<<"assertion failed", a.field>>)
             ELSE IF v.kind # "Ok"
             THEN v
             ELSE Ok([locals EXCEPT ![a.field] =
                        CASE a.mode = "push" -> Pushed(was, v.val)
                          [] a.mode = "flag" -> TRUE
                          [] a.mode = "count" -> v.val
                          [] OTHER -> <<v.val>>])

\* The loop over the parts.
Scanned(e, locals, parts) ==
    IF parts = <<>>
    THEN Ok(locals)
    ELSE IF Assigned(e, locals, Head(parts)).kind # "Ok"
    THEN Assigned(e, locals, Head(parts))
    ELSE Scanned(e, Assigned(e, locals, Head(parts)).val, Tail(parts))

\* A submission decoder that, at a PAPER container, returns what it makes of
\* the container's children.
FromParts_UnwrapsPaper(e, parts) ==
    LET papers == SelectSeq(parts, LAMBDA p : p.k = "ContainerNode" /\ p.tag = "Paper")
    IN  IF e = "Submission" /\ papers # <<>>
        THEN FromParts(e, papers[1].parts)
        ELSE IF Scanned(e, InitialLocals(e), parts).kind # "Ok"
        THEN Scanned(e, InitialLocals(e), parts)
        ELSE Finalize(e, Scanned(e, InitialLocals(e), parts).val)

\* Entity::from_parts(parts)
FromParts(e, parts) ==
    IF Scanned(e, InitialLocals(e), parts).kind # "Ok"
    THEN Scanned(e, InitialLocals(e), parts)
    ELSE Finalize(e, Scanned(e, InitialLocals(e), parts).val)

\* A decoder that takes the parts out of the slice it is given.
Bind_ConsumesParts ==
    /\ pc = "from_parts"
    /\ result' = FromParts(bindIn.entity, bindIn.parts)
    /\ bindIn' = [bindIn EXCEPT !.parts = <<>>]
    /\ pc' = "done"
    /\ UNCHANGED <<input, reader, lexed, tokens, stack, tree>>

\* from_parts called on the parts of a container node.
Bind ==
    /\ pc = "from_parts"
    /\ result' = FromParts(bindIn.entity, bindIn.parts)
    /\ pc' = "done"
    /\ UNCHANGED <<input, reader, lexed, tokens, stack, tree, bindIn>>

----------------------------------------------------------------------------
(* The binder on its own: from_parts of every entity, called on parts      *)
(* built from the nodes its arms match, and from nodes they do not match.  *)

MaxParts == 3

MaxRepeat == 2

\* A value the conversion accepts.
GoodValue(conv) ==
    CASE conv = "parse_date" -> <<"19991231">>
      [] conv = "parse_date_time" -> <<"19991231:235959">>
      [] conv = "parse_bool" -> <<"Y">>
      [] conv = "MonthDayPair" -> <<"1231">>
      [] conv \in {"parse_usize", "parse_u32"} -> <<"1">>
      [] conv = "none" -> <<>>
      [] OTHER -> <<"x">>

RECURSIVE SeqOf(_)
SeqOf(S) ==
    IF S = {} THEN <<>>
    ELSE LET x == CHOOSE x \in S : TRUE IN <<x>> \o SeqOf(S \ {x})

RECURSIVE Minimal(_), Sample(_)

\* A node the arm matches and converts.
Sample(a) ==
    CASE a.node = "ValueNode" -> ValueNode(a.tag, GoodValue(a.conv))
      [] a.node = "TextNode" -> TextNode(<<"t">>)
      [] OTHER -> ContainerNode(a.tag, Minimal(a.conv))

\* Parts that give the entity each field its record needs, and no other.
Minimal(e) ==
    LET arms == SeqOf({a \in Arms(e) : a.field \in Unwrapped(e)})
    IN  [i \in 1..Len(arms) |-> Sample(arms[i])]

\* Another value the conversion accepts, where the instance has one.
OtherValue(conv) ==
    CASE conv = "parse_date" -> <<"20000101">>
      [] conv = "parse_bool" -> <<"N">>
      [] conv \in {"parse_usize", "parse_u32"} -> <<"2">>
      [] conv = "clone" -> <<"y">>
      [] OTHER -> GoodValue(conv)

\* A node the arm matches and converts to something else than Sample(a):
\* another value, or a container with other parts.
Variant(a) ==
    CASE a.node = "ValueNode" -> ValueNode(a.tag, OtherValue(a.conv))
      [] a.node = "TextNode" -> TextNode(<<"u">>)
      [] OTHER ->
            IF Minimal(a.conv) = <<>>
            THEN ContainerNode(a.tag, <<Sample(CHOOSE b \in Arms(a.conv) : TRUE)>>)
            ELSE ContainerNode(a.tag,
                     [i \in 1..Len(Minimal(a.conv)) |->
                         IF Minimal(a.conv)[i].k = "ValueNode"
                         THEN ValueNode(Minimal(a.conv)[i].tag, <<"y">>)
                         ELSE Minimal(a.conv)[i]])

Without(q, i) == SubSeq(q, 1, i - 1) \o Drop(q, i)

Repeat(n, k) == [i \in 1..k |-> n]

\* A confirming-copy container holding the children of a whole submission.
ConfirmingCopyNode == ContainerNode("ConfirmingCopy", Minimal("Submission"))

\* A PAPER container holding the children of a whole submission.
PaperNode == ContainerNode("Paper", Minimal("Submission"))

AllSamples ==
    UNION {{Sample(a) : a \in Arms(e)} : e \in Entities}
        \cup {Empty, TextNode(<<"t">>), ValueNode("Type", <<"y">>),
              ConfirmingCopyNode, PaperNode}

\* Nodes whose value the conversion of their arm rejects, and containers
\* whose own parts are lacking or not all legal.
BadSamples(e) ==
    {ValueNode(a.tag, <<"bogus">>) :
        a \in {b \in Arms(e) : b.node = "ValueNode" /\ b.conv \notin {"clone", "none"}}}
    \cup {ContainerNode(a.tag, <<>>) : a \in {b \in Arms(e) : b.node = "ContainerNode"}}
    \cup {ContainerNode(a.tag, Minimal(a.conv) \o <<Empty>>) :
            a \in {b \in Arms(e) : b.node = "ContainerNode"}}

DocumentNode ==
    ContainerNode("Document",
        <<ValueNode("Type", <<"x">>), ValueNode("Sequence", <<"1">>)>>)

SubmissionCore ==
    {ValueNode("PublicDocumentCount", <<"0">>),
     ValueNode("PublicDocumentCount", <<"1">>),
     ValueNode("PublicDocumentCount", <<"2">>),
     DocumentNode,
     ValueNode("Sros", <<"x">>),
     ValueNode("Sros", <<"y">>),
     PaperNode}

DocumentTexts ==
    {<<"t">>,
     <<" ", "t", "\n">>,
     Marker("XML") \o <<"t">> \o EndMarker("XML"),
     Marker("PDF") \o <<"t">> \o EndMarker("PDF"),
     Marker("XBRL") \o <<"t">> \o EndMarker("XBRL"),
     Marker("XML") \o <<"t">>,
     <<"begin 644", " ", "a.pdf", "\n", "#0V%T", "\n", "end", "\n">>,
     <<"begin 644", " ", "a.pdf", "\n", "t">>,
     Marker("PDF") \o <<"begin 644", " ", "a.pdf", "\n", "#0V%T", "\n", "end", "\n">>
        \o EndMarker("PDF")}

PartsFor(e) ==
    {Minimal(e) \o <<n>> : n \in AllSamples \cup BadSamples(e)}
    \cup {Without(Minimal(e), i) : i \in 1..Len(Minimal(e))}
    \cup {Minimal(e) \o Repeat(Sample(a), k) : a \in Arms(e), k \in 0..MaxRepeat}
    \cup {<<n>> \o Minimal(e) : n \in {Sample(a) : a \in Arms(e)}}
    \cup UNION {{Minimal(e) \o <<Sample(a), Variant(a)>>,
                 Minimal(e) \o <<Variant(a), Sample(a)>>,
                 <<Variant(a)>> \o Minimal(e) \o <<Sample(a), Variant(a)>>} :
                a \in Arms(e)}
    \cup (IF e = "Submission"
          THEN {Minimal(e) \o s : s \in SeqsUpTo(SubmissionCore, MaxParts)}
          ELSE {})
    \cup (IF e = "Document"
          THEN {Minimal(e) \o s : s \in SeqsUpTo({TextNode(t) : t \in DocumentTexts}, MaxRepeat)}
          ELSE {})

InitBind ==
    /\ bindIn \in UNION {{[entity |-> e, parts |-> p] : p \in PartsFor(e)} : e \in Entities}
    /\ input = <<>>
    /\ reader = <<>>
    /\ lexed = <<>>
    /\ tokens = <<>>
    /\ stack = <<>>
    /\ tree = Pending
    /\ result = Pending
    /\ pc = "from_parts"

\* from_parts called a second time on the parts it was called on.
BindAgain ==
    /\ pc = "done"
    /\ bindIn.entity \in Entities
    /\ result' = FromParts(bindIn.entity, bindIn.parts)
    /\ pc' = "again"
    /\ UNCHANGED <<input, reader, lexed, tokens, stack, tree, bindIn>>

NextBind == Bind \/ BindAgain

SpecBind == InitBind /\ [][NextBind]_vars

----------------------------------------------------------------------------
(* The document body decoder on its own: TypedData::from_string and        *)
(* DocumentBody::from_string, each called once on a text.                  *)

\* TypedData::from_string(input)
DecodeTypedData ==
    /\ pc = "typed_data"
    /\ result' = TypedDataFromString(input)
    /\ pc' = "done"
    /\ UNCHANGED <<input, reader, lexed, tokens, stack, tree, bindIn>>

\* DocumentBody::from_string(input)
DecodeDocumentBody ==
    /\ pc = "document_body"
    /\ result' = DocumentBodyFromString(input)
    /\ pc' = "done"
    /\ UNCHANGED <<input, reader, lexed, tokens, stack, tree, bindIn>>

\* A uuencoded attachment: its header line, its lines, its end line.
Attachment(filename) ==
    <<"begin 644", " ", filename, "\n", "#0V%T", "\n", "end", "\n">>

BodyContents ==
    {<<>>, <<"t">>, <<"t", "\n", "u">>, <<" ", "t", " ">>, <<"\n", "t", "\n">>,
     Attachment("report.pdf"),
     Attachment("a.xml"),
     <<"\n">> \o Attachment("report.pdf"),
     <<"t", "\n">> \o Attachment("report.pdf"),
     <<"begin 644", " ", "report.pdf", "\n", "t">>,
     <<"begin 644">>}

BodyMargins == {<<>>, <<" ">>, <<"\n">>}

\* The content as it stands, between the markers of a wrapper, or behind an
\* opening marker that is never closed.
BodyWrappings(c) ==
    {c}
    \cup {Marker(w) \o c \o EndMarker(w) : w \in {"XML", "PDF", "XBRL"}}
    \cup {Marker(w) \o c : w \in {"XML", "PDF", "XBRL"}}
    \cup {Marker("XML") \o c \o EndMarker("PDF")}

BodyTexts ==
    {lead \o w \o trail :
        lead \in BodyMargins, trail \in BodyMargins,
        w \in UNION {BodyWrappings(c) : c \in BodyContents}}

InitBody ==
    /\ input \in BodyTexts
    /\ pc \in {"typed_data", "document_body"}
    /\ reader = <<>>
    /\ lexed = <<>>
    /\ tokens = <<>>
    /\ stack = <<>>
    /\ tree = Pending
    /\ bindIn = [entity |-> IF pc = "typed_data" THEN "TypedData" ELSE "DocumentBody",
                 parts |-> <<>>]
    /\ result = Pending

NextBody == DecodeTypedData \/ DecodeDocumentBody

SpecBody == InitBody /\ [][NextBody]_vars

----------------------------------------------------------------------------
(* The lexer on its own: tokenize_submission called once on a text.        *)

Line(content) == content \o <<"\n">>

LexLines ==
    {Line(<<"<", name, ">">>) : name \in {"SUBMISSION", "TYPE", "PAPER", "BOGUS", "TEXT"}}
        \cup {Line(<<"<", "/", name, ">">>) : name \in {"SUBMISSION", "TYPE", "PAPER", "TEXT"}}
        \cup {Line(<<"<", name, ">", "v">>) : name \in {"SUBMISSION", "TYPE", "PAPER"}}
        \cup {Line(<<" ", "<", "SUBMISSION", ">">>), Line(<<" ", "a">>), Line(<<>>),
              Line(<<"<", "/", "SUBMISSION", ">", "v">>)}
        \cup {Line(<<"<", "/", "TEXT", ">", "\r">>), <<"<", "/", "TEXT", ">">>,
              Line(<<" ">>)}

InitLex ==
    /\ input \in {Concat(ls) : ls \in SeqsUpTo(LexLines, MaxLexLines)}
    /\ pc = "tokenize"
    /\ reader = input
    /\ lexed = <<>>
    /\ tokens = <<>>
    /\ stack = <<>>
    /\ tree = Pending
    /\ bindIn = NoInput
    /\ result = Pending

NextLex == TokenizeStep

SpecLex == InitLex /\ [][NextLex]_vars

----------------------------------------------------------------------------
(* parse_submission (lib.rs): tokenize, build the tree, bind it. *)

\* The token document_tree.rs matches for a token of the lexer: a value token
\* is the tag followed by its text, when it has any.
AsTreeTokens(t) ==
    CASE t.k = "TagOpen" -> <<ContainerTagOpen(t.tag)>>
      [] t.k = "TagClose" -> <<ContainerTagClose(t.tag)>>
      [] t.k = "TagValue" ->
            IF t.text = <<>> THEN <<ValueTagToken(t.tag)>>
            ELSE <<ValueTagToken(t.tag), RawText(t.text)>>
      [] OTHER -> <<TextBlock(t.text)>>

\* lib.rs:22, VecDeque::from(tokens), and the call of parse_doc on it.
CallParseDoc ==
    /\ pc = "tokenized"
    /\ tokens' = Concat([i \in 1..Len(lexed) |-> AsTreeTokens(lexed[i])])
    /\ pc' = "parse_doc"
    /\ UNCHANGED <<input, reader, lexed, stack, tree, bindIn, result>>

IsSubmissionNode(t) ==
    t.kind = "Ok" /\ t.val.k = "ContainerNode" /\ t.val.tag = "Submission"

\* An entry point that empties the queue once the first node is built.
CallFromParts_DrainsQueue ==
    /\ pc = "parsed"
    /\ IsSubmissionNode(tree)
    /\ bindIn' = [entity |-> "Submission", parts |-> tree.val.parts]
    /\ pc' = "from_parts"
    /\ tokens' = <<>>
    /\ UNCHANGED <<input, reader, lexed, stack, tree, result>>

\* lib.rs:24-26, the tree is a SUBMISSION container: its parts are bound.
CallFromParts ==
    /\ pc = "parsed"
    /\ IsSubmissionNode(tree)
    /\ bindIn' = [entity |-> "Submission", parts |-> tree.val.parts]
    /\ pc' = "from_parts"
    /\ UNCHANGED <<input, reader, lexed, tokens, stack, tree, result>>

\* lib.rs:27-29, parse_doc returned an error or any other node.
Here1 ==
    /\ pc = "parsed"
    /\ tree.kind \in {"Ok", "Err"}
    /\ ~IsSubmissionNode(tree)
    /\ result' = Panic(<<"here1">>)
    /\ pc' = "done"
    /\ UNCHANGED <<input, reader, lexed, tokens, stack, tree, bindIn>>

\* A panic inside parse_doc unwinds through parse_submission.
ParseDocPanicked ==
    /\ pc = "parsed"
    /\ tree.kind = "Panic"
    /\ result' = tree
    /\ pc' = "done"
    /\ UNCHANGED <<input, reader, lexed, tokens, stack, tree, bindIn>>

MaxChunks == 3

SubmissionHeader ==
    Line(<<"<", "SUBMISSION", ">">>)
        \o Line(<<"<", "ACCESSION-NUMBER", ">", "x">>)
        \o Line(<<"<", "TYPE", ">", "x">>)
        \o Line(<<"<", "FILING-DATE", ">", "19991231">>)

\* A document whose TEXT block directly follows a value tag.
DocumentWithText ==
    Line(<<"<", "DOCUMENT", ">">>) \o Line(<<"<", "TYPE", ">", "x">>)
        \o Line(<<"<", "SEQUENCE", ">", "1">>)
        \o Line(<<"<", "TEXT", ">">>) \o Line(<<"t">>)
        \o Line(<<"<", "/", "TEXT", ">">>)
        \o Line(<<"<", "/", "DOCUMENT", ">">>)

Chunks ==
    {Line(<<"<", "PUBLIC-DOCUMENT-COUNT", ">", "2">>),
     Line(<<"<", "DOCUMENT", ">">>) \o Line(<<"<", "TYPE", ">", "x">>)
        \o Line(<<"<", "SEQUENCE", ">", "1">>) \o Line(<<"<", "/", "DOCUMENT", ">">>),
     Line(<<"<", "TYPE", ">", "x">>),
     Line(<<"<", "FILER", ">">>),
     Line(<<"<", "/", "FILER", ">">>),
     Line(<<"<", "/", "SUBMISSION", ">">>),
     Line(<<"<", "TEXT", ">">>) \o Line(<<"t">>) \o Line(<<"<", "/", "TEXT", ">">>),
     Line(<<"<", "BOGUS", ">">>),
     DocumentWithText}

Init ==
    /\ input \in {h \o Concat(cs) : h \in {<<>>, SubmissionHeader},
                                    cs \in SeqsUpTo(Chunks, MaxChunks)}
    /\ pc = "tokenize"
    /\ reader = input
    /\ lexed = <<>>
    /\ tokens = <<>>
    /\ stack = <<>>
    /\ tree = Pending
    /\ bindIn = NoInput
    /\ result = Pending

\* parse_doc on the queue CallParseDoc builds.  A RawText is in that queue
\* only behind the ValueTag it belongs to, which consumes it, so the `_` arm
\* of parse_doc (ParseDocUnexpected) cannot be taken here.
ParseDocOnLexed ==
    \/ ParseDocEmpty
    \/ ParseDocOpen
    \/ ParseDocCloseMatching
    \/ ParseDocCloseMismatched
    \/ ParseDocEndOfInput
    \/ ParseDocUnexpectedClose
    \/ ParseDocValue
    \/ ParseDocText

Next ==
    \/ TokenizeStep
    \/ CallParseDoc
    \/ ParseDocOnLexed
    \/ CallFromParts
    \/ Here1
    \/ ParseDocPanicked
    \/ Bind

Spec == Init /\ [][Next]_vars

\* C1: for every input, parse_submission returns to its caller either a
\* Submission or an error value; no input makes it abort instead.
C1_ReturnsSubmissionOrError == (pc = "done") => result.kind \in {"Ok", "Err"}

----------------------------------------------------------------------------
(* Properties of the lexer. *)

\* The lines of a text, each with its line break (the last one may have none).
RECURSIVE SplitLines(_)
SplitLines(text) ==
    IF text = <<>>
    THEN <<>>
    ELSE LET n == IF \E i \in 1..Len(text) : text[i] = "\n"
                  THEN CHOOSE i \in 1..Len(text) :
                           text[i] = "\n" /\ \A j \in 1..(i - 1) : text[j] # "\n"
                  ELSE Len(text)
         IN  <<SubSeq(text, 1, n)>> \o SplitLines(Drop(text, n))

\* The line next_token is about to read, without surrounding whitespace.
FrontLine == Trim(Head(SplitLines(reader)))

AtLine == pc = "tokenize" /\ reader # <<>>

\* The index, among the lines after the front line, of the first line equal
\* to the TEXT close marker; 0 when there is none.
FirstCloseLine(ls) ==
    IF \E i \in 1..Len(ls) : ls[i] = <<"<", "/", "TEXT", ">", "\n">>
    THEN CHOOSE i \in 1..Len(ls) :
             /\ ls[i] = <<"<", "/", "TEXT", ">", "\n">>
             /\ \A j \in 1..(i - 1) : ls[j] # <<"<", "/", "TEXT", ">", "\n">>
    ELSE 0

\* C9: once the <TEXT> line is read, the lines up to the first line equal to
\* the close marker are joined, unchanged, into one TextData token that is
\* the only token pushed for them, and reading goes on after the marker.
C9_TextBodyVerbatim ==
    [][(AtLine /\ FrontLine = <<"<", "TEXT", ">">>
            /\ FirstCloseLine(Tail(SplitLines(reader))) # 0) =>
          LET ls == Tail(SplitLines(reader))
              n == FirstCloseLine(ls)
          IN  /\ lexed' = Append(lexed, TextData(Concat(SubSeq(ls, 1, n - 1))))
              /\ reader' = Concat(SubSeq(ls, n + 1, Len(ls)))
              /\ pc' = "tokenize"]_vars

\* A body line that has the shape of a tag line and leading whitespace was
\* captured as it stood, whitespace and line break included.
C9_Witness ==
    /\ pc = "tokenized"
    /\ input = Line(<<"<", "TEXT", ">">>) \o Line(<<" ", "<", "SUBMISSION", ">">>)
                   \o Line(<<"<", "/", "TEXT", ">">>)
    /\ lexed = <<TextData(<<" ", "<", "SUBMISSION", ">", "\n">>)>>

IsOpenShape(l) == Len(l) = 3 /\ l[1] = "<" /\ l[2] # "/" /\ l[3] = ">"

IsCloseShape(l) == Len(l) = 4 /\ l[1] = "<" /\ l[2] = "/" /\ l[4] = ">"

IsValueShape(l) == Len(l) > 3 /\ l[1] = "<" /\ l[2] # "/" /\ l[3] = ">"

IsTagLine(l) == IsOpenShape(l) \/ IsCloseShape(l) \/ IsValueShape(l)

NameOf(l) == IF IsCloseShape(l) THEN l[3] ELSE l[2]

ValueOf(l) == IF IsValueShape(l) THEN Drop(l, 3) ELSE <<>>

Pushes(token) == lexed' = Append(lexed, token) /\ pc' = "tokenize"

LexFails == lexed' = lexed /\ pc' = "done" /\ result'.kind = "Panic"

\* C10 as stated: whatever the shape of a tag line, a name of the container
\* vocabulary yields a container open or close token, and only a name that is
\* not in it is looked up in the value vocabulary and yields a value token.
C10_AnyShapeContainerFirst ==
    [][(AtLine /\ IsTagLine(FrontLine) /\ NameOf(FrontLine) # "TEXT") =>
          LET name == NameOf(FrontLine)
          IN  /\ name \in DOMAIN ContainerVocab =>
                    \/ Pushes(TagOpen(ContainerVocab[name]))
                    \/ Pushes(TagClose(ContainerVocab[name]))
              /\ (name \notin DOMAIN ContainerVocab
                      /\ name \in DOMAIN ValueVocab) =>
                    Pushes(TagValue(ValueVocab[name], ValueOf(FrontLine)))]_vars

\* C10 as amended: a line <NAME> is looked up in the container vocabulary
\* first (a container open token) and then in the value vocabulary (a value
\* token with an empty value); a line </NAME> is looked up in the container
\* vocabulary only and a line <NAME>VALUE in the value vocabulary only, and a
\* name that fails its lookup fails the lexer.
C10_OpenShapeContainerFirst ==
    [][(AtLine /\ IsTagLine(FrontLine) /\ NameOf(FrontLine) # "TEXT") =>
          LET name == NameOf(FrontLine)
              inC == name \in DOMAIN ContainerVocab
              inV == name \in DOMAIN ValueVocab
          IN  /\ (IsOpenShape(FrontLine) /\ inC) =>
                    Pushes(TagOpen(ContainerVocab[name]))
              /\ (IsOpenShape(FrontLine) /\ ~inC /\ inV) =>
                    Pushes(TagValue(ValueVocab[name], <<>>))
              /\ (IsOpenShape(FrontLine) /\ ~inC /\ ~inV) => LexFails
              /\ (IsCloseShape(FrontLine) /\ inC) =>
                    Pushes(TagClose(ContainerVocab[name]))
              /\ (IsCloseShape(FrontLine) /\ ~inC) => LexFails
              /\ (IsValueShape(FrontLine) /\ inV) =>
                    Pushes(TagValue(ValueVocab[name], ValueOf(FrontLine)))
              /\ (IsValueShape(FrontLine) /\ ~inV) => LexFails]_vars

\* <PAPER> names a container and a value tag, <TYPE> a value tag only.
C10_Witness ==
    /\ pc = "tokenized"
    /\ input = Line(<<"<", "PAPER", ">">>) \o Line(<<"<", "TYPE", ">">>)
    /\ lexed = <<TagOpen("Paper"), TagValue("Type", <<>>)>>

\* A line that is no tag line: it has no ">", or does not start with "<", or
\* is a close tag followed by a value.
Malformed(l) == ~IsTagLine(l)

\* A tag line whose name is in neither vocabulary.
UnknownName(l) ==
    /\ IsTagLine(l)
    /\ NameOf(l) \notin (DOMAIN ContainerVocab \cup DOMAIN ValueVocab \cup {"TEXT"})

\* Some line of ls that is not inside a TEXT block is malformed or has an
\* unknown name.
RECURSIVE HasBadLine(_)
HasBadLine(ls) ==
    IF ls = <<>> THEN FALSE
    ELSE IF Trim(Head(ls)) = <<"<", "TEXT", ">">>
    THEN /\ FirstCloseLine(Tail(ls)) # 0
         /\ HasBadLine(Drop(Tail(ls), FirstCloseLine(Tail(ls))))
    ELSE \/ Malformed(Trim(Head(ls)))
         \/ UnknownName(Trim(Head(ls)))
         \/ HasBadLine(Tail(ls))

\* C11: a line outside a TEXT block that is malformed or whose name is in
\* neither vocabulary makes the lexer fail as a whole: reading it ends
\* tokenize_submission without a token sequence, the tokens lexed before it
\* are handed to nobody, and no text holding such a line is ever tokenized.
C11_BadLineFailsWholeLexing ==
    /\ [](pc = "tokenized" => ~HasBadLine(SplitLines(input)))
    /\ [][(AtLine /\ (Malformed(FrontLine) \/ UnknownName(FrontLine))) =>
            /\ pc' = "done"
            /\ result'.kind = "Panic"
            /\ tokens' = <<>>
            /\ lexed' = lexed]_vars

\* <BOGUS> after a line that was lexed: the lexer failed, and the token of
\* the first line went nowhere.
C11_Witness ==
    /\ pc = "done"
    /\ input = Line(<<"<", "SUBMISSION", ">">>) \o Line(<<"<", "BOGUS", ">">>)
    /\ lexed = <<TagOpen("Submission")>>
    /\ tokens = <<>>
    /\ result.kind = "Panic"

\* A line equal to </TEXT>, ended by a line feed, by a carriage return and a
\* line feed, or by the end of the input.
IsCloseMarkerLine(l) ==
    l \in {<<"<", "/", "TEXT", ">", "\n">>, <<"<", "/", "TEXT", ">", "\r", "\n">>,
           <<"<", "/", "TEXT", ">">>}

\* The index of the first such line of ls, 0 when there is none.
FirstMarkerLine(ls) ==
    IF \E i \in 1..Len(ls) : IsCloseMarkerLine(ls[i])
    THEN CHOOSE i \in 1..Len(ls) :
             /\ IsCloseMarkerLine(ls[i])
             /\ \A j \in 1..(i - 1) : ~IsCloseMarkerLine(ls[j])
    ELSE 0

\* C25: once the <TEXT> line is read, the first line equal to </TEXT> ends
\* the capture whatever ends that line (a line feed, a carriage return and a
\* line feed, or the end of the input): the Text token holding the lines
\* before it is pushed and lexing goes on.
C25_CloseMarkerAnyLineEnd ==
    [][(AtLine /\ FrontLine = <<"<", "TEXT", ">">>
            /\ FirstMarkerLine(Tail(SplitLines(reader))) # 0) =>
          LET ls == Tail(SplitLines(reader))
              n == FirstMarkerLine(ls)
          IN  /\ lexed' = Append(lexed, TextData(Concat(SubSeq(ls, 1, n - 1))))
              /\ reader' = Concat(SubSeq(ls, n + 1, Len(ls)))
              /\ pc' = "tokenize"]_vars

\* C26: a line outside a TEXT block that is empty or holds whitespace only is
\* passed over: reading it pushes no token and does not end the lexing, which
\* goes on with the line after it.
C26_BlankLineIsSkipped ==
    [][(AtLine /\ FrontLine = <<>>) =>
          /\ pc' = "tokenize"
          /\ lexed' = lexed
          /\ reader' = Concat(Tail(SplitLines(reader)))
          /\ result' = result]_vars

----------------------------------------------------------------------------
(* Properties of the tree builder. *)

Top == stack[Len(stack)]

\* The tokens parse_doc has removed from the queue so far.
Consumed == SubSeq(input, 1, Len(input) - Len(tokens))

CountKind(q, kind) == Cardinality({i \in 1..Len(q) : q[i].k = kind})

\* A frame's loop finds, at the front of the queue, a close token for a tag
\* other than the frame's own.
MismatchedCloseAtFront ==
    /\ pc = "parse_doc" /\ stack # <<>> /\ tokens # <<>>
    /\ Head(tokens).k = "ContainerTagClose"
    /\ Head(tokens).tag # Top.tag

\* The tag/value sequence of a token queue: an entry per open, close and
\* text token, and one entry per value tag, holding the tag and the text of
\* the raw tokens that continue it.
Entry(k, tag, text) == [k |-> k, tag |-> tag, text |-> text]

RECURSIVE Entries(_)
Entries(q) ==
    IF q = <<>> THEN <<>>
    ELSE LET prev == Entries(SubSeq(q, 1, Len(q) - 1))
             t == q[Len(q)]
         IN  CASE t.k = "ContainerTagOpen" -> Append(prev, Entry("open", t.tag, <<>>))
               [] t.k = "ContainerTagClose" -> Append(prev, Entry("close", t.tag, <<>>))
               [] t.k = "ValueTag" -> Append(prev, Entry("value", t.tag, <<>>))
               [] t.k = "TextBlock" -> Append(prev, Entry("text", "", t.text))
               [] OTHER ->
                    IF prev # <<>> /\ prev[Len(prev)].k = "value"
                    THEN [prev EXCEPT ![Len(prev)].text = @ \o t.text]
                    ELSE Append(prev, Entry("raw", "", t.text))

\* The tree in document order: open, children in order, close.
RECURSIVE Flatten(_), FlattenAll(_)
Flatten(node) ==
    CASE node.k = "ContainerNode" ->
             <<Entry("open", node.tag, <<>>)>> \o FlattenAll(node.parts)
                 \o <<Entry("close", node.tag, <<>>)>>
      [] node.k = "ValueNode" -> <<Entry("value", node.tag, node.value)>>
      [] node.k = "TextNode" -> <<Entry("text", "", node.value)>>
      [] OTHER -> <<>>

FlattenAll(nodes) ==
    IF nodes = <<>> THEN <<>> ELSE Flatten(Head(nodes)) \o FlattenAll(Tail(nodes))

\* es, read with the containers of open still open, is legally nested: each
\* close entry closes the innermost open container and none is left open.
RECURSIVE Nested(_, _)
Nested(es, open) ==
    IF es = <<>> THEN open = <<>>
    ELSE CASE Head(es).k = "open" -> Nested(Tail(es), Append(open, Head(es).tag))
           [] Head(es).k = "close" ->
                 /\ open # <<>>
                 /\ open[Len(open)] = Head(es).tag
                 /\ Nested(Tail(es), SubSeq(open, 1, Len(open) - 1))
           [] Head(es).k = "raw" -> FALSE
           [] OTHER -> Nested(Tail(es), open)

WellFormed(q) == Nested(Entries(q), <<>>)

\* A well-formed queue that is one node: no shorter part of it is well-formed.
OneNode(q) ==
    /\ q # <<>>
    /\ WellFormed(q)
    /\ \A n \in 1..(Len(q) - 1) :
          ~WellFormed(SubSeq(q, 1, n)) \/ q[n + 1].k = "RawText"

\* C12: parse_doc on a well-formed queue returns a tree, and the tree
\* flattened in document order is the tag/value sequence of the tokens it
\* consumed, which for a queue that is one node is the whole queue: nothing is
\* reordered, dropped or duplicated.
C12_FlattenIsInput ==
    (pc = "parsed") =>
        /\ WellFormed(input) => tree.kind = "Ok"
        /\ tree.kind = "Ok" => Flatten(tree.val) = Entries(Consumed)
        /\ OneNode(input) => tree.kind = "Ok" /\ tokens = <<>>

\* A container with two different children, a value and then a text block,
\* has been built from the whole queue.
C12_Witness ==
    /\ pc = "parsed"
    /\ input = <<ContainerTagOpen("Submission"), ValueTagToken("Type"),
                 TextBlock(<<"b">>), ContainerTagClose("Submission")>>
    /\ tokens = <<>>
    /\ tree = Ok(ContainerNode("Submission",
                    <<ValueNode("Type", <<>>), TextNode(<<"b">>)>>))

\* C2: while container T is open, a close token for another tag at the front
\* of the queue makes parse_doc return the UnexpectedCloseTag error, and no
\* node is built from the tokens (T is not closed by it).
C2_MismatchedCloseIsReported ==
    [][MismatchedCloseAtFront =>
          /\ tree'.kind = "Err"
          /\ tree'.val[1] = "UnexpectedCloseTag"]_vars

\* The queue is exhausted while a frame still waits for its close token.
ExhaustedInsideContainer ==
    pc = "parse_doc" /\ stack # <<>> /\ tokens = <<>>

\* C7: when the queue runs out while a container is open, parse_doc returns
\* UnexpectedEndOfInput(T) for the innermost open container T; a container
\* node is returned only when every open token consumed has had its close
\* token consumed too.
C7_EndOfInputNamesInnermost ==
    /\ [][ExhaustedInsideContainer =>
             /\ pc' = "parsed"
             /\ tree'.kind = "Err"
             /\ tree'.val = <<"UnexpectedEndOfInput", Top.tag>>]_vars
    /\ [](pc = "parsed" /\ tree.kind = "Ok" =>
             CountKind(Consumed, "ContainerTagOpen")
                 = CountKind(Consumed, "ContainerTagClose"))

\* Two containers were open when the input ended; the inner one is named.
C7_Witness ==
    /\ pc = "parsed"
    /\ Len(input) >= 2
    /\ input[1] = ContainerTagOpen("Submission")
    /\ input[Len(input)] = ContainerTagOpen("Filer")
    /\ tree.kind = "Err"
    /\ tree.val = <<"UnexpectedEndOfInput", "Filer">>

\* parse_doc is called with a close token at the front of the queue.
CalledOnClose ==
    /\ pc = "parse_doc" /\ stack = <<>> /\ tokens # <<>>
    /\ Head(tokens).k = "ContainerTagClose"

\* C8: parse_doc called with a close token for T at the front of the queue
\* returns UnexpectedCloseTag(T) and builds no node.
C8_CloseAtCallIsUnexpectedCloseTag ==
    [][CalledOnClose =>
          /\ pc' = "parsed"
          /\ tree'.kind = "Err"
          /\ tree'.val = <<"UnexpectedCloseTag", Head(tokens).tag>>]_vars

C8_Witness ==
    /\ pc = "parsed"
    /\ input # <<>>
    /\ input[1] = ContainerTagClose("Filer")
    /\ tree.kind = "Err"
    /\ tree.val = <<"UnexpectedCloseTag", "Filer">>

\* parse_doc is called with a value token at the front of the queue.
CalledOnValue ==
    pc = "parse_doc" /\ tokens # <<>> /\ Head(tokens).k = "ValueTag"

\* The call under way returns node: to the caller of the outermost call, or
\* to the innermost frame, which appends it to its children.
Returns(node) ==
    IF stack = <<>>
    THEN pc' = "parsed" /\ tree' = Ok(node) /\ stack' = <<>>
    ELSE /\ pc' = "parse_doc"
         /\ stack' = [stack EXCEPT ![Len(stack)].parts = Append(@, node)]

\* C21: a call on a value token removes the token and the whole run of n
\* raw-text tokens that directly follows it, and returns one value node whose
\* string is the token's content followed by the content of those n tokens in
\* order; none of them stays in the queue or becomes a node of its own.
C21_ValueAbsorbsContinuations ==
    [][CalledOnValue =>
          \E n \in 0..(Len(tokens) - 1) :
              /\ \A i \in 2..(n + 1) : tokens[i].k = "RawText"
              /\ (n + 1 < Len(tokens)) => tokens[n + 2].k # "RawText"
              /\ tokens' = SubSeq(tokens, n + 2, Len(tokens))
              /\ Returns(ValueNode(Head(tokens).tag,
                     Head(tokens).text
                         \o Concat([i \in 1..n |-> tokens[i + 1].text])))]_vars

\* Two different continuation tokens were joined in order, and the text
\* token behind them stayed in the queue.
C21_Witness ==
    /\ pc = "parsed"
    /\ input = <<ValueTagToken("Type"), RawText(<<"a">>), RawText(<<"c">>),
                 TextBlock(<<"b">>)>>
    /\ tokens = <<TextBlock(<<"b">>)>>
    /\ tree = Ok(ValueNode("Type", <<"a", "c">>))

\* A call of parse_doc starts on a queue that is not empty: the outermost
\* call, or the call a frame's loop makes when the front is no close token.
CallStarts ==
    /\ pc = "parse_doc" /\ tokens # <<>>
    /\ stack = <<>> \/ Head(tokens).k # "ContainerTagClose"

\* The deepest nesting of open-container tokens in q.
NestingDepth(q) ==
    LET depth(n) == CountKind(SubSeq(q, 1, n), "ContainerTagOpen")
                        - CountKind(SubSeq(q, 1, n), "ContainerTagClose")
        depths == {depth(n) : n \in 0..Len(q)}
    IN  CHOOSE d \in depths : \A e \in depths : e <= d

\* C27: every call on a queue that is not empty removes at least one token;
\* every step leaves in the queue a suffix of what was there (tokens leave at
\* the front and none comes back); the number of calls under way is never
\* more than the deepest nesting of open-container tokens in the input; and
\* parse_doc returns.
C27_ParseDocTerminates ==
    /\ [][CallStarts => Len(tokens') < Len(tokens)]_vars
    /\ [][/\ Len(tokens') <= Len(tokens)
          /\ tokens' = Drop(tokens, Len(tokens) - Len(tokens'))]_vars
    /\ [](Len(stack) <= NestingDepth(input))
    /\ <>(pc = "parsed")

\* A queue nested two deep was consumed whole, two calls deep on the way.
C27_Witness ==
    /\ pc = "parsed"
    /\ input = <<ContainerTagOpen("Submission"), ContainerTagOpen("Filer"),
                 ContainerTagClose("Filer"), ContainerTagClose("Submission")>>
    /\ tokens = <<>>
    /\ tree = Ok(ContainerNode("Submission", <<ContainerNode("Filer", <<>>)>>))

----------------------------------------------------------------------------
(* Properties of the binder. *)

Decoded == pc = "done" /\ bindIn.entity # ""

\* The children of the given kind and tag, in input order.
ChildrenOfKind(parts, kind, tag) ==
    SelectSeq(parts, LAMBDA p : p.k = kind /\ p.tag = tag)

\* The children among parts that assign the field f of entity e.
ChildrenOf(e, parts, f) ==
    {i \in 1..Len(parts) : \E a \in MatchingArms(e, parts[i]) : a.field = f}

DocumentChildren(parts) ==
    {i \in 1..Len(parts) : parts[i].k = "ContainerNode" /\ parts[i].tag = "Document"}

CountChildren(parts) ==
    {i \in 1..Len(parts) :
        parts[i].k = "ValueNode" /\ parts[i].tag = "PublicDocumentCount"}

\* C3: Submission::from_parts succeeds only if the value of every
\* PUBLIC-DOCUMENT-COUNT child equals the number of DOCUMENT children decoded
\* into the record.
C3_CountEqualsDocuments ==
    (Decoded /\ bindIn.entity = "Submission" /\ result.kind = "Ok") =>
        \A i \in CountChildren(bindIn.parts) :
            /\ bindIn.parts[i].value \in DOMAIN NumberTable
            /\ NumberTable[bindIn.parts[i].value] = Len(result.val.documents)
            /\ Len(result.val.documents) = Cardinality(DocumentChildren(bindIn.parts))

\* The fields of entity e that hold at most one value.
SingleValued(e) == {a.field : a \in {b \in Arms(e) : b.mode \in {"once", "overwrite"}}}

\* C4: in every decoder, a single-valued field that occurs a second time
\* among the children makes decoding fail: no record is returned for parts in
\* which two children assign the same single-valued field.
C4_SecondOccurrenceFails ==
    (Decoded /\ result.kind = "Ok") =>
        \A f \in SingleValued(bindIn.entity) :
            Cardinality(ChildrenOf(bindIn.entity, bindIn.parts, f)) <= 1

\* C5: a decoder never returns a record whose mandatory field was absent:
\* when no child assigns a field the record declares without Option, decoding
\* fails at the end of from_parts, and in a returned record every such field
\* holds the converted value of a child that is present.
C5_MandatoryFieldNeverSynthesized ==
    Decoded =>
        \A f \in Required(bindIn.entity) :
            /\ ChildrenOf(bindIn.entity, bindIn.parts, f) = {} => result.kind = "Panic"
            /\ result.kind = "Ok" =>
                 \E i \in ChildrenOf(bindIn.entity, bindIn.parts, f) :
                    \E a \in MatchingArms(bindIn.entity, bindIn.parts[i]) :
                        /\ Converted(a.conv, bindIn.parts[i]).kind = "Ok"
                        /\ result.val[f] = Converted(a.conv, bindIn.parts[i]).val

\* A submission lacking its FILING-DATE, or a document lacking its SEQUENCE,
\* has been decoded and the decoding failed on the missing value.
C5_Witness ==
    /\ Decoded
    /\ bindIn.entity \in {"Submission", "Document"}
    /\ \E f \in Required(bindIn.entity) :
          ChildrenOf(bindIn.entity, bindIn.parts, f) = {}
    /\ \A i \in 1..Len(bindIn.parts) : MatchingArms(bindIn.entity, bindIn.parts[i]) # {}
    /\ result.kind = "Panic"
    /\ result.val = <<"called Option::unwrap() on a None value">>

\* The arms of entity e that push onto a repeated field.
Repeated(e) == {a \in Arms(e) : a.mode = "push"}

\* The children among parts that arm a matches, in the order of parts.
Occurrences(parts, a) ==
    SelectSeq(parts, LAMBDA n : n.k = a.node /\ n.tag = a.tag)

\* C13: every repeated field of a decoded record holds one element per
\* occurrence among the children, each the converted child, in the order of
\* the children: nothing is reordered, merged or dropped as a duplicate.
C13_RepeatedFieldKeepsOccurrences ==
    (Decoded /\ result.kind = "Ok") =>
        \A a \in Repeated(bindIn.entity) :
            LET occ == Occurrences(bindIn.parts, a)
            IN  /\ Len(result.val[a.field]) = Len(occ)
                /\ \A i \in 1..Len(occ) :
                      /\ Converted(a.conv, occ[i]).kind = "Ok"
                      /\ result.val[a.field][i] = Converted(a.conv, occ[i]).val

\* A submission with the ITEMS y, x, y, in that order, has been decoded.
C13_Witness ==
    /\ Decoded
    /\ bindIn.entity = "Submission"
    /\ Occurrences(bindIn.parts, [node |-> "ValueNode", tag |-> "Items"])
          = <<ValueNode("Items", <<"y">>), ValueNode("Items", <<"x">>),
              ValueNode("Items", <<"y">>)>>
    /\ result.kind = "Ok"
    /\ result.val.items = <<<<"y">>, <<"x">>, <<"y">>>>

\* The confirming-copy containers among parts.
ConfirmingCopies(parts) ==
    {i \in 1..Len(parts) :
        parts[i].k = "ContainerNode" /\ parts[i].tag = "ConfirmingCopy"}

\* C14: a confirming-copy container among a submission's children is decoded
\* by the submission decoder on its own children, and the nested Submission
\* is the outer record's confirming_copy; the other children make the outer
\* record as they do without it.
C14_ConfirmingCopyIsNestedSubmission ==
    (Decoded /\ bindIn.entity = "Submission") =>
        \A i \in ConfirmingCopies(bindIn.parts) :
            LET nested == FromParts("Submission", bindIn.parts[i].parts)
                outer == FromParts("Submission", Without(bindIn.parts, i))
            IN  (nested.kind = "Ok" /\ outer.kind = "Ok") =>
                    /\ result.kind = "Ok"
                    /\ result.val.confirming_copy = <<nested.val>>
                    /\ \A f \in Fields("Submission") \ {"confirming_copy"} :
                          result.val[f] = outer.val[f]

\* The children among parts that the entity has no arm for.
IllegalChildren(e, parts) == {i \in 1..Len(parts) : MatchingArms(e, parts[i]) = {}}

\* C6: for every decoder, a child that is not one of the entity's legal
\* children (a foreign tag, a container where only values are legal, a Text
\* node outside a DOCUMENT, an Empty node) makes decoding fail; no record is
\* returned for parts that hold such a child.
C6_UnrecognizedChildFails ==
    (Decoded /\ IllegalChildren(bindIn.entity, bindIn.parts) # {}) =>
        result.kind = "Panic"

\* A FILER whose child is an Empty node, a Text node or a container it has
\* no arm for has been decoded, and the decoding failed on that child.
C6_Witness ==
    /\ Decoded
    /\ bindIn.entity = "Company"
    /\ \E i \in IllegalChildren(bindIn.entity, bindIn.parts) :
          /\ bindIn.parts[i].k \in {"Empty", "TextNode", "ContainerNode"}
          /\ result.kind = "Panic"
          /\ result.val = <<"Unexpected", bindIn.parts[i].k, bindIn.parts[i].tag>>

\* C19: every decoded Merger has one acquiring Series and at least one target
\* Series: a MERGER without a TARGET-DATA child, or whose TARGET-DATA
\* children hold no SERIES, is not decoded.
C19_MergerHasTargetSeries ==
    (Decoded /\ bindIn.entity = "Merger" /\ result.kind = "Ok") =>
        /\ DOMAIN result.val.acquiring_data.series = Fields("Series")
        /\ \E i \in 1..Len(result.val.target_data) :
              Len(result.val.target_data[i].series) >= 1

LastFiledByOnly(parts) ==
    LET last == CHOOSE i \in 1..Len(parts) :
                    /\ parts[i].k = "ContainerNode" /\ parts[i].tag = "FiledBy"
                    /\ \A j \in (i + 1)..Len(parts) :
                           ~(parts[j].k = "ContainerNode" /\ parts[j].tag = "FiledBy")
        kept == {i \in 1..Len(parts) :
                    i = last \/ ~(parts[i].k = "ContainerNode"
                                    /\ parts[i].tag = "FiledBy")}
    IN  [n \in 1..Cardinality(kept) |->
            parts[CHOOSE i \in kept : Cardinality({j \in kept : j <= i}) = n]]

\* C23: a submission with several FILED-BY children, each of which decodes as
\* a company, has the outcome it would have with the last of them alone: the
\* repetition raises no error, and filed_by holds the company decoded from the
\* last FILED-BY child in input order.
C23_LastFiledByWins ==
    (Decoded /\ bindIn.entity = "Submission") =>
        LET fb == ChildrenOfKind(bindIn.parts, "ContainerNode", "FiledBy")
        IN  (/\ Len(fb) > 1
             /\ \A i \in 1..Len(fb) : FromParts("Company", fb[i].parts).kind = "Ok")
            => /\ result = FromParts("Submission", LastFiledByOnly(bindIn.parts))
               /\ result.kind = "Ok" =>
                     result.val.filed_by
                         = <<FromParts("Company", fb[Len(fb)].parts).val>>

\* Two FILED-BY children that decode to different companies: the record has
\* the second one.
C23_Witness ==
    /\ Decoded /\ bindIn.entity = "Submission" /\ result.kind = "Ok"
    /\ LET fb == ChildrenOfKind(bindIn.parts, "ContainerNode", "FiledBy")
       IN  /\ Len(fb) = 2
           /\ FromParts("Company", fb[1].parts).kind = "Ok"
           /\ FromParts("Company", fb[1].parts) # FromParts("Company", fb[2].parts)
           /\ result.val.filed_by = <<FromParts("Company", fb[2].parts).val>>

\* parts without its children of the given kind and tag.
WithoutChildren(parts, kind, tag) ==
    SelectSeq(parts, LAMBDA p : ~(p.k = kind /\ p.tag = tag))

\* The index of the first PAPER container among parts, 0 when there is none.
FirstPaper(parts) ==
    LET at == {i \in 1..Len(parts) :
                  parts[i].k = "ContainerNode" /\ parts[i].tag = "Paper"}
    IN  IF at = {} THEN 0 ELSE CHOOSE i \in at : \A j \in at : i <= j

\* C24 as stated: with a PAPER container among the children, the outcome of
\* the decode is the outcome of the submission decoder on the children of
\* that container, whatever its siblings are.
C24_PaperContainerIsUnwrapped ==
    (Decoded /\ bindIn.entity = "Submission" /\ FirstPaper(bindIn.parts) # 0) =>
        result = FromParts("Submission",
                           bindIn.parts[FirstPaper(bindIn.parts)].parts)

\* C24 as amended: the decoder is not re-invoked on the children of a PAPER
\* container; once the siblings before it are scanned, the decode stops at
\* the container with a panic, whatever follows it, and no record is
\* returned.  PAPER is decoded as a value tag: it sets the paper flag, and
\* the record is otherwise the one its siblings give without it.
C24_PaperContainerStopsDecode ==
    (Decoded /\ bindIn.entity = "Submission") =>
        LET parts == bindIn.parts
            i == FirstPaper(parts)
        IN  /\ i # 0 => result.kind # "Ok"
            /\ (i # 0 /\ Scanned("Submission", InitialLocals("Submission"),
                                  SubSeq(parts, 1, i - 1)).kind = "Ok") =>
                   result = Panic(<<"Unexpected", "ContainerNode", "Paper">>)
            /\ (i = 0 /\ ChildrenOfKind(parts, "ValueNode", "Paper") # <<>>
                      /\ result.kind = "Ok") =>
                   /\ result.val.paper = TRUE
                   /\ FromParts("Submission",
                           WithoutChildren(parts, "ValueNode", "Paper")).kind = "Ok"
                   /\ result.val =
                        [FromParts("Submission",
                             WithoutChildren(parts, "ValueNode", "Paper")).val
                            EXCEPT !.paper = TRUE]

\* A PAPER container with the children of a whole submission, behind the
\* siblings a submission needs and in front of another sibling: no record.
C24_Witness ==
    /\ Decoded /\ bindIn.entity = "Submission"
    /\ bindIn.parts = Minimal("Submission") \o <<PaperNode, ValueNode("Sros", <<"x">>)>>
    /\ FromParts("Submission", PaperNode.parts).kind = "Ok"
    /\ result = Panic(<<"Unexpected", "ContainerNode", "Paper">>)

\* The values of the PUBLIC-DOCUMENT-COUNT children, in input order.
CountValues(parts) ==
    LET cs == ChildrenOfKind(parts, "ValueNode", "PublicDocumentCount")
    IN  [i \in 1..Len(cs) |-> cs[i].value]

\* Some occurrence other than the last records a count that is not 0.
CountRejected(vs) == \E i \in 1..(Len(vs) - 1) : NumberTable[vs[i]] # 0

CountAssertion == Panic(<<"assertion failed", "public_document_count">>)

\* C29: among the PUBLIC-DOCUMENT-COUNT children of a submission (each a
\* number), an occurrence is rejected exactly when the one before it recorded
\* a count other than 0: the decode then fails, with the assertion on the
\* count when nothing else is wrong.  After occurrences of 0 a further one is
\* accepted and replaces the count, and the decode ends as it does without
\* any PUBLIC-DOCUMENT-COUNT child.
C29_CountRejectedOnlyWhenNonZero ==
    (/\ Decoded /\ bindIn.entity = "Submission"
     /\ \A i \in 1..Len(CountValues(bindIn.parts)) :
            CountValues(bindIn.parts)[i] \in DOMAIN NumberTable) =>
        LET parts == bindIn.parts
            vs == CountValues(parts)
            others == WithoutChildren(parts, "ValueNode", "PublicDocumentCount")
            scan == Scanned("Submission", InitialLocals("Submission"), parts)
        IN  /\ CountRejected(vs) => result.kind = "Panic"
            /\ (CountRejected(vs) /\ FromParts("Submission", others).kind = "Ok") =>
                   result = CountAssertion
            /\ ~CountRejected(vs) =>
                   /\ result = FromParts("Submission", others)
                   /\ (scan.kind = "Ok" /\ vs # <<>>) =>
                          scan.val.public_document_count = NumberTable[vs[Len(vs)]]

\* The counts 0, 0 and 2 in a row: all three were accepted.
C29_Witness ==
    /\ Decoded /\ bindIn.entity = "Submission" /\ result.kind = "Ok"
    /\ CountValues(bindIn.parts) = <<<<"0">>, <<"0">>, <<"2">>>>

----------------------------------------------------------------------------
(* Properties of the document body decoder. *)

TypedDecoded == pc = "done" /\ bindIn.entity = "TypedData"

BodyDecoded == pc = "done" /\ bindIn.entity = "DocumentBody"

\* The content is wrapped in <NAME> ... </NAME>, whitespace around it aside.
WrappedIn(text, name) ==
    /\ StartsWith(Trim(text), Marker(name))
    /\ EndsWith(StripPrefix(Trim(text), Marker(name)), EndMarker(name))

\* C15: TypedData::from_string classifies content wrapped in <XML> as Xml,
\* in <PDF> as Pdf, in <XBRL> as Xbrl, and all other content as Plaintext.
C15_EachWrapperItsDataType ==
    TypedDecoded =>
        /\ WrappedIn(input, "XML") =>
              (result.kind = "Ok" => result.val.data_type = "Xml")
        /\ WrappedIn(input, "PDF") =>
              (result.kind = "Ok" => result.val.data_type = "Pdf")
        /\ WrappedIn(input, "XBRL") =>
              (result.kind = "Ok" => result.val.data_type = "Xbrl")
        /\ (\A w \in {"XML", "PDF", "XBRL"} : ~StartsWith(Trim(input), Marker(w))) =>
              (result.kind = "Ok" => result.val.data_type = "Plaintext")

HasHeader(text) == text # <<>> /\ text[1] = "begin 644"

\* The text is a whole attachment: header line with a filename, encoded
\* lines, end line.
IsAttachment(text) == \E f \in {"report.pdf", "a.xml"} : text = Attachment(f)

\* C16 as stated: DocumentBody::from_string yields the binary variant, with
\* the decoded bytes and the filename of the header, exactly when its input
\* starts with "begin 644", and the text variant for every other input.
C16_BinaryExactlyWhenHeader ==
    BodyDecoded =>
        /\ HasHeader(input) =>
              (result.kind = "Ok" /\ result.val.variant = "BinaryData")
        /\ ~HasHeader(input) =>
              (result.kind = "Ok" /\ result.val.variant = "Text")

\* C16 as amended: an input that starts with "begin 644" yields the binary
\* variant, with the decoded bytes and the filename of the header, when the
\* uuencode decoder accepts it, and makes from_string fail when it does not
\* (never the text variant); every input that does not start with
\* "begin 644" yields the text variant holding the input.
C16_BinaryWhenHeaderDecodes ==
    BodyDecoded =>
        /\ (HasHeader(input) /\ IsAttachment(input)) =>
              /\ result.kind = "Ok"
              /\ result.val.variant = "BinaryData"
              /\ result.val.filename = <<input[3]>>
              /\ result.val.data = <<"C", "a", "t">>
        /\ (HasHeader(input) /\ result.kind = "Ok") =>
              result.val.variant = "BinaryData"
        /\ (HasHeader(input) /\ input = <<"begin 644">>) => result.kind = "Panic"
        /\ ~HasHeader(input) =>
              result = Ok([variant |-> "Text", filename |-> <<>>, data |-> input])

\* The attachment report.pdf has been decoded into its bytes and filename.
C16_Witness ==
    /\ BodyDecoded
    /\ input = Attachment("report.pdf")
    /\ result = Ok([variant |-> "BinaryData", filename |-> <<"report.pdf">>,
                    data |-> <<"C", "a", "t">>])

\* The text is an attachment, with or without the line break that ends it.
AttachmentFor(text, f) ==
    \/ text = Attachment(f)
    \/ text = SubSeq(Attachment(f), 1, Len(Attachment(f)) - 1)

\* The content, whitespace around it aside, is the attachment f: bare, or
\* between the markers of a wrapper, on the marker's line or on the next.
HoldsAttachment(text, f) ==
    \/ AttachmentFor(Trim(text), f)
    \/ \E w \in {"XML", "PDF", "XBRL"} :
          \/ Trim(text) = Marker(w) \o Attachment(f) \o EndMarker(w)
          \/ Trim(text) = Marker(w) \o <<"\n">> \o Attachment(f) \o EndMarker(w)

\* C17: whenever the attachment in a TEXT body begins with a line
\* "begin 644 <filename>", the body is decoded as the binary variant with
\* that filename, also when the line follows the line break after a wrapper
\* marker such as <PDF> or <XML>.
C17_AttachmentAfterMarkerLine ==
    TypedDecoded =>
        \A f \in {"report.pdf", "a.xml"} :
            HoldsAttachment(input, f) =>
                /\ result.kind = "Ok"
                /\ result.val.body.variant = "BinaryData"
                /\ result.val.body.filename = <<f>>

\* The content without its wrapper: what is between the markers when the
\* content is wrapped, the content itself when it is not.
UnwrappedContent(text) ==
    IF \E w \in {"XML", "PDF", "XBRL"} : WrappedIn(text, w)
    THEN LET w == CHOOSE w \in {"XML", "PDF", "XBRL"} : WrappedIn(text, w)
         IN  StripSuffix(StripPrefix(Trim(text), Marker(w)), EndMarker(w))
    ELSE text

NoHeader(text) == \A i \in 1..Len(text) : text[i] # "begin 644"

\* An opening marker without its closing marker.
HalfWrapped(text) ==
    \E w \in {"XML", "PDF", "XBRL"} :
        StartsWith(Trim(text), Marker(w)) /\ ~WrappedIn(text, w)

\* C18: when the content carries no uuencode header, the body of the decoded
\* document is the text variant holding the unwrapped content verbatim,
\* leading and trailing whitespace and line breaks included.
C18_TextContentVerbatim ==
    (TypedDecoded /\ NoHeader(input) /\ ~HalfWrapped(input)) =>
        /\ result.kind = "Ok"
        /\ result.val.body.variant = "Text"
        /\ result.val.body.data = UnwrappedContent(input)

\* C30: content that, trimmed, starts with <XML>, <PDF> or <XBRL> and does
\* not end with the closing marker of that wrapper makes
\* TypedData::from_string panic: no TypedData is produced, and the content is
\* not classified as plain text.
C30_UnclosedWrapperFailsHard ==
    (TypedDecoded /\ HalfWrapped(input)) =>
        result = Panic(<<"called Option::unwrap() on a None value">>)

\* An <XML> wrapper closed by the marker of another wrapper.
C30_Witness ==
    /\ TypedDecoded
    /\ input = Marker("XML") \o <<"t">> \o EndMarker("PDF") \o <<"\n">>
    /\ result.kind = "Panic"

----------------------------------------------------------------------------
(* Properties of parse_submission. *)

\* parse_doc is called with a text block at the front of the queue.
CalledOnText ==
    pc = "parse_doc" /\ tokens # <<>> /\ Head(tokens).k = "TextBlock"

\* C22: a text block at the front of the queue becomes a text node, the next
\* child of the innermost open container; a call on a value token leaves every
\* text block in the queue, one that directly follows the value token
\* included; and a decoded document with one text child has that text,
\* decoded by TypedData::from_string, as its body.
C22_TextBlockIsDocumentBody ==
    /\ [][CalledOnText =>
             /\ tokens' = Tail(tokens)
             /\ Returns(TextNode(Head(tokens).text))]_vars
    /\ [][CalledOnValue =>
             \A i \in 1..Len(tokens) :
                 tokens[i].k = "TextBlock" =>
                     /\ Len(tokens') > Len(tokens) - i
                     /\ tokens' = Drop(tokens, Len(tokens) - Len(tokens'))]_vars
    /\ [](pc = "done" /\ bindIn.entity = "Submission" /\ result.kind = "Ok" =>
             LET docs == ChildrenOfKind(bindIn.parts, "ContainerNode", "Document")
             IN  \A i \in 1..Len(docs) :
                     LET texts == ChildrenOfKind(docs[i].parts, "TextNode", "")
                     IN  Len(texts) = 1 =>
                             result.val.documents[i].body
                                 = <<TypedDataFromString(texts[1].value).val>>)

\* The TEXT block behind <SEQUENCE>1 is the body of the document, and the
\* sequence number is the value of its own line.
C22_Witness ==
    /\ pc = "done"
    /\ input = SubmissionHeader \o DocumentWithText
                   \o Line(<<"<", "/", "SUBMISSION", ">">>)
    /\ result.kind = "Ok"
    /\ Len(result.val.documents) = 1
    /\ result.val.documents[1].sequence = 1
    /\ result.val.documents[1].body
           = <<[data_type |-> "Plaintext",
                body |-> [variant |-> "Text", filename |-> <<>>,
                          data |-> <<"t">>]]>>

\* The queue parse_doc was called on.
Queue == Concat([i \in 1..Len(lexed) |-> AsTreeTokens(lexed[i])])

\* The number of tokens of the first node of q: the length of its shortest
\* well-formed beginning, the raw tokens that continue its value included.
FirstNodeLen(q) ==
    CHOOSE n \in 1..Len(q) :
        /\ WellFormed(SubSeq(q, 1, n))
        /\ n = Len(q) \/ q[n + 1].k # "RawText"
        /\ \A m \in 1..(n - 1) :
               ~WellFormed(SubSeq(q, 1, m)) \/ q[m + 1].k = "RawText"

\* C28: once parse_doc has returned the SUBMISSION container, the queue holds
\* the tokens behind the container's close token, in order, and is not
\* touched again; the tree is the one of the tokens up to that close token,
\* the binder gets its children and nothing else, and the outcome of
\* parse_submission is what the binder makes of them, whatever follows.
C28_TrailingTokensIgnored ==
    /\ [][(pc \in {"parsed", "from_parts"}) => tokens' = tokens]_vars
    /\ [](pc \in {"parsed", "from_parts", "done"} /\ IsSubmissionNode(tree) =>
             LET n == FirstNodeLen(Queue)
             IN  /\ tokens = Drop(Queue, n)
                 /\ Flatten(tree.val) = Entries(SubSeq(Queue, 1, n))
                 /\ pc # "parsed" =>
                       bindIn = [entity |-> "Submission", parts |-> tree.val.parts]
                 /\ pc = "done" =>
                       result = FromParts("Submission", tree.val.parts))

\* A value and an open container that is never closed follow </SUBMISSION>:
\* the record is returned and the three tokens are still in the queue.
C28_Witness ==
    /\ pc = "done"
    /\ input = SubmissionHeader \o Line(<<"<", "/", "SUBMISSION", ">">>)
                   \o Line(<<"<", "TYPE", ">", "x">>) \o Line(<<"<", "FILER", ">">>)
    /\ tokens = <<ValueTagToken("Type"), RawText(<<"x">>), ContainerTagOpen("Filer")>>
    /\ result = FromParts("Submission", Minimal("Submission"))
    /\ result.kind = "Ok"

====
